---- MODULE Spec2Model ----
(***************************************************************************)
(* A model of particle-quest: the falling-sand grid (ParticleGrid), the    *)
(* shared kinematics of the actors, the enemy AI and the tick driver       *)
(* (Game.update).                                                          *)
(*                                                                         *)
(* Source files: src/unnamed/part_000 (particles.ts),                      *)
(* src/unnamed/part_001 lines 1-455 (entities.ts), src/src/lib/level.ts,   *)
(* src/src/components/Game.tsx.                                            *)
(***************************************************************************)
EXTENDS Integers, Sequences, FiniteSets, TLC

VARIABLES
  grid,     \* gridRef: the ParticleGrid object [width, height, grid]
  pre,      \* history: the grid as it was before the last updatePhysics()
  nsteps,   \* number of updatePhysics() calls made so far
  player,   \* playerRef
  slimes,   \* slimesRef: the roster, a sequence
  bats,     \* batsRef
  spiders,  \* spidersRef
  ticks,    \* number of update() calls (ticks) made so far
  game,     \* the other refs and state of the Game component, and where
            \* update() stands
  hist      \* history: what the ticks did

gridVars == <<grid, pre, nsteps>>
actorVars == <<player, slimes, bats, spiders>>
driverVars == <<game, hist>>
vars == <<grid, pre, nsteps, player, slimes, bats, spiders, ticks, game, hist>>

(***************************************************************************)
(* Bounds of the model.                                                    *)
(***************************************************************************)
GridW == 3        \* width of the grids of SpecGrid
GridH == 3        \* height of the grids of SpecGrid
MaxLoose == 3     \* at most this many non-Air cells in an initial grid of SpecGrid
MaxSteps == 2     \* updatePhysics() calls per behaviour of SpecGrid
KinW == 4         \* the grids of SpecKin
KinH == 8
MaxSeg == 1       \* length of the solid segment in a grid of SpecKin
MaxKinTicks == 2  \* integrations per behaviour of SpecKin
ScenW == 10       \* the settling scenario's grid
ScenH == 10
TickW == 14       \* the level of SpecTick
TickH == 14
GroundRow == 3    \* the row of the level's floor
MaxTicks == 2     \* update() calls per behaviour of SpecTick
MaxResets == 1    \* resetGame() calls per behaviour of SpecTick
BatW == 48        \* the grid of SpecBat
BatH == 8
MaxBatTicks == 3  \* updateBatAI calls per behaviour of SpecBat
InertW == 2       \* the grids of SpecInert
InertH == 3
MaxInert == 2     \* at most this many non-Air cells in an initial grid of SpecInert
AccW == 2         \* the grids of SpecAccess
AccH == 2
MaxAccCells == 2  \* at most this many non-Air cells in a grid of SpecAccess
FullW == 4        \* the grids of SpecFull
FullH == 6
MaxFullLoose == 2 \* at most this many loose cells in a grid of SpecFull
MaxFullTicks == 3 \* ticks per behaviour of SpecFull
CollW == 3        \* the grids of SpecColl
CollH == 3
MaxCollCells == 2 \* at most this many non-Air cells in a grid of SpecColl
SlimeW == 36
SlimeH == 8
MaxSlimeTicks == 110
SpiderW == 6
SpiderH == 9
MaxSpiderTicks == 8
MaxStepTicks == 2
MaxLoopTicks == 3
MaxAttackTicks == 32
MaxAttackResets == 1
BiasW == 3
BiasH == 3
MaxBiasLoose == 3
MaxBiasSteps == 1
MaxSettleSteps == 10
DirtW == 3
DirtH == 3
MaxDirtCells == 3
MaxDirtCalls == 1
CoastW == 48
CoastH == 6
MaxCoastTicks == 33
RestW == 3
RestH == 3
MaxRestLoose == 3
MaxRestSteps == 7
DiveW == 48
DiveH == 30
MaxDiveTicks == 125
MaxHopTicks == 70
JumpW == 8
JumpH == 8
MaxJumpTicks == 6
SpawnGW == 3      \* the grids of SpecSpawn
SpawnGH == 12
MaxSpawnCells == 2  \* at most this many non-Air cells in a grid of SpecSpawn

(***************************************************************************)
(* ParticleType.  Stone is written by generateLevel (level.ts:74) although *)
(* the enum of part_000 does not list it; the automaton treats it, like    *)
(* every tag other than Dirt and Grass, as inert.                          *)
(***************************************************************************)
Air == "Air"
Dirt == "Dirt"
Grass == "Grass"
Plant == "Plant"
PlayerTag == "Player"
SlimeTag == "Slime"
SwordTag == "Sword"
BatTag == "Bat"
Stone == "Stone"

ParticleType == {Air, Dirt, Grass, Plant, PlayerTag, SlimeTag, SwordTag, BatTag, Stone}

(***************************************************************************)
(* A Particle object.  id stands for the identity of the JavaScript        *)
(* object (swap exchanges the objects, so the id travels with them); 0 is  *)
(* an Air object.                                                          *)
(***************************************************************************)
Particle(t, i) == [type |-> t, updated |-> FALSE, id |-> i]

\* get()'s null
NoCell == [type |-> "null", updated |-> FALSE, id |-> 0]

Cells(w, h) == (0 .. w - 1) \X (0 .. h - 1)

\* new ParticleGrid(width, height): every cell an Air object
initializeGrid(w, h) ==
  [width |-> w, height |-> h, grid |-> [c \in Cells(w, h) |-> Particle(Air, 0)]]

OutOfRange(g, x, y) == x < 0 \/ x >= g.width \/ y < 0 \/ y >= g.height

get(g, x, y) == IF OutOfRange(g, x, y) THEN NoCell ELSE g.grid[<<x, y>>]

set(g, x, y, p) ==
  IF OutOfRange(g, x, y) THEN g ELSE [g EXCEPT !.grid[<<x, y>>] = p]

\* mutant: only the first endpoint is checked
swapChecksFirst(g, x1, y1, x2, y2) ==
  IF OutOfRange(g, x1, y1) THEN g
  ELSE LET other == IF OutOfRange(g, x2, y2) THEN [type |-> "undefined", updated |-> FALSE, id |-> 0]
                    ELSE g.grid[<<x2, y2>>]
       IN [g EXCEPT !.grid = [c \in DOMAIN g.grid |->
                                IF c = <<x1, y1>> THEN other
                                ELSE IF c = <<x2, y2>> THEN g.grid[<<x1, y1>>]
                                ELSE g.grid[c]]]

swap(g, x1, y1, x2, y2) ==
  IF OutOfRange(g, x1, y1) \/ OutOfRange(g, x2, y2) THEN g
  ELSE [g EXCEPT !.grid[<<x1, y1>>] = g.grid[<<x2, y2>>],
                 !.grid[<<x2, y2>>] = g.grid[<<x1, y1>>]]

isEmpty(g, x, y) ==
  LET particle == get(g, x, y)
  IN IF particle # NoCell THEN particle.type = Air ELSE FALSE

isSolid(g, x, y) ==
  LET particle == get(g, x, y)
  IN IF particle = NoCell THEN TRUE ELSE particle.type # Air

resetUpdated(g) ==
  [g EXCEPT !.grid = [c \in DOMAIN g.grid |-> [g.grid[c] EXCEPT !.updated = FALSE]]]

\* this.grid[x][y].updated = true
MarkUpdated(g, x, y) == [g EXCEPT !.grid[<<x, y>>].updated = TRUE]

(***************************************************************************)
(* updateDirt(x, y); left is the outcome of                                *)
(* Math.random() < 0.5 ? -1 : 1, which the code draws only when the cell   *)
(* below is not Air.                                                       *)
(***************************************************************************)
\* mutant: a Dirt with two Air cells below falls through both
updateDirtFallsTwo(g, x, y, left) ==
  LET below == get(g, x, y + 1)
      below2 == get(g, x, y + 2)
      right == -left
      belowLeft == get(g, x + left, y + 1)
      belowRight == get(g, x + right, y + 1)
  IN IF below # NoCell /\ below.type = Air
     THEN IF below2 # NoCell /\ below2.type = Air
          THEN MarkUpdated(swap(g, x, y, x, y + 2), x, y + 2)
          ELSE MarkUpdated(swap(g, x, y, x, y + 1), x, y + 1)
     ELSE IF belowLeft # NoCell /\ belowLeft.type = Air
          THEN MarkUpdated(swap(g, x, y, x + left, y + 1), x + left, y + 1)
          ELSE IF belowRight # NoCell /\ belowRight.type = Air
               THEN MarkUpdated(swap(g, x, y, x + right, y + 1), x + right, y + 1)
               ELSE g

\* mutant: the first diagonal is taken whenever it is in the grid, and what
\* it held is overwritten
updateDirtOverwrites(g, x, y, left) ==
  LET below == get(g, x, y + 1)
      belowLeft == get(g, x + left, y + 1)
  IN IF below # NoCell /\ below.type = Air
     THEN MarkUpdated(swap(g, x, y, x, y + 1), x, y + 1)
     ELSE IF belowLeft # NoCell
          THEN MarkUpdated(set(set(g, x + left, y + 1, g.grid[<<x, y>>]),
                               x, y, Particle(Air, 0)), x + left, y + 1)
          ELSE g

\* mutant: a Dirt that cannot go down rolls aside in its row
updateDirtRolls(g, x, y, left) ==
  LET below == get(g, x, y + 1)
      right == -left
      belowLeft == get(g, x + left, y + 1)
      belowRight == get(g, x + right, y + 1)
      beside == get(g, x + left, y)
  IN IF below # NoCell /\ below.type = Air
     THEN MarkUpdated(swap(g, x, y, x, y + 1), x, y + 1)
     ELSE IF belowLeft # NoCell /\ belowLeft.type = Air
          THEN MarkUpdated(swap(g, x, y, x + left, y + 1), x + left, y + 1)
          ELSE IF belowRight # NoCell /\ belowRight.type = Air
               THEN MarkUpdated(swap(g, x, y, x + right, y + 1), x + right, y + 1)
               ELSE IF beside # NoCell /\ beside.type = Air
                    THEN MarkUpdated(swap(g, x, y, x + left, y), x + left, y)
                    ELSE g

\* mutant: only the diagonal of the draw is tried
updateDirtBiasOnly(g, x, y, left) ==
  LET below == get(g, x, y + 1)
      belowLeft == get(g, x + left, y + 1)
  IN IF below # NoCell /\ below.type = Air
     THEN MarkUpdated(swap(g, x, y, x, y + 1), x, y + 1)
     ELSE IF belowLeft # NoCell /\ belowLeft.type = Air
          THEN MarkUpdated(swap(g, x, y, x + left, y + 1), x + left, y + 1)
          ELSE g

\* mutant: the diagonal opposite to the draw is tried first
updateDirtOppositeFirst(g, x, y, left) ==
  LET below == get(g, x, y + 1)
      right == -left
      belowLeft == get(g, x + left, y + 1)
      belowRight == get(g, x + right, y + 1)
  IN IF below # NoCell /\ below.type = Air
     THEN MarkUpdated(swap(g, x, y, x, y + 1), x, y + 1)
     ELSE IF belowRight # NoCell /\ belowRight.type = Air
          THEN MarkUpdated(swap(g, x, y, x + right, y + 1), x + right, y + 1)
          ELSE IF belowLeft # NoCell /\ belowLeft.type = Air
               THEN MarkUpdated(swap(g, x, y, x + left, y + 1), x + left, y + 1)
               ELSE g

updateDirt(g, x, y, left) ==
  LET below == get(g, x, y + 1)
      right == -left
      belowLeft == get(g, x + left, y + 1)
      belowRight == get(g, x + right, y + 1)
  IN IF below # NoCell /\ below.type = Air
     THEN MarkUpdated(swap(g, x, y, x, y + 1), x, y + 1)
     ELSE IF belowLeft # NoCell /\ belowLeft.type = Air
          THEN MarkUpdated(swap(g, x, y, x + left, y + 1), x + left, y + 1)
          ELSE IF belowRight # NoCell /\ belowRight.type = Air
               THEN MarkUpdated(swap(g, x, y, x + right, y + 1), x + right, y + 1)
               ELSE g

(***************************************************************************)
(* updateGrass(x, y): set() puts a new Dirt object in the Grass cell (it   *)
(* keeps the id here, so that the material can be followed), then the      *)
(* Dirt is swapped down.                                                   *)
(***************************************************************************)
\* mutant: the Grass falls without being converted
updateGrassStaysGrass(g, x, y) ==
  IF get(g, x, y + 1) # NoCell /\ get(g, x, y + 1).type = Air
  THEN MarkUpdated(swap(g, x, y, x, y + 1), x, y + 1)
  ELSE g

updateGrass(g, x, y) ==
  LET below == get(g, x, y + 1)
  IN IF below # NoCell /\ below.type = Air
     THEN MarkUpdated(
            swap(set(g, x, y, Particle(Dirt, g.grid[<<x, y>>].id)), x, y, x, y + 1),
            x, y + 1)
     ELSE g

(***************************************************************************)
(* The body of updatePhysics()'s inner loop for the cell (x, y): the set   *)
(* of grids it can leave, one per outcome of the random draw.              *)
(***************************************************************************)
\* mutant: every cell that is not Air or Grass is moved as Dirt is
VisitCellMovesAll(g, x, y) ==
  LET particle == g.grid[<<x, y>>]
  IN IF particle.updated THEN {g}
     ELSE IF particle.type \notin {Air, Grass}
          THEN {updateDirt(g, x, y, left) : left \in {-1, 1}}
          ELSE IF particle.type = Grass
               THEN {updateGrass(g, x, y)}
               ELSE {g}

VisitCell(g, x, y) ==
  LET particle == g.grid[<<x, y>>]
  IN IF particle.updated THEN {g}
     ELSE IF particle.type = Dirt
          THEN IF get(g, x, y + 1) # NoCell /\ get(g, x, y + 1).type = Air
               THEN {updateDirt(g, x, y, -1)}       \* no draw on this path
               ELSE {updateDirt(g, x, y, left) : left \in {-1, 1}}
          ELSE IF particle.type = Grass
               THEN {updateGrass(g, x, y)}
               ELSE {g}

\* the inner loop of updatePhysics() for row y: the columns lo .. hi - 1 in
\* increasing order, the left half of the range and then the right half.
\* G holds one grid per outcome of the draws made so far (the test G1 = {}
\* is never true: it makes the set be computed before the scan goes on)
RECURSIVE ScanRow(_, _, _, _)
ScanRow(G, lo, hi, y) ==
  IF hi <= lo THEN G
  ELSE IF hi = lo + 1 THEN UNION {VisitCell(g, lo, y) : g \in G}
  ELSE LET mid == (lo + hi) \div 2
           G1 == ScanRow(G, lo, mid, y)
       IN IF G1 = {} THEN {} ELSE ScanRow(G1, mid, hi, y)

\* the outer loop of updatePhysics(): the rows hi - 1 down to lo, the lower
\* half of the range (the larger y) and then the upper half
RECURSIVE ScanRows(_, _, _, _)
ScanRows(G, w, lo, hi) ==
  IF hi <= lo THEN G
  ELSE IF hi = lo + 1 THEN ScanRow(G, 0, w, lo)
  ELSE LET mid == (lo + hi) \div 2
           G1 == ScanRows(G, w, mid, hi)
       IN IF G1 = {} THEN {} ELSE ScanRows(G1, w, lo, mid)

\* updatePhysics(): the grids one call can produce
updatePhysics(g) == ScanRows({resetUpdated(g)}, g.width, 0, g.height - 1)

(***************************************************************************)
(* Numbers.  Positions and vy are fixed-point: U units are one cell (the   *)
(* sub-step vy / ceil(|vy|) of every vy the code produces, a multiple of   *)
(* 0.5 of magnitude <= 7, is a whole number of units).  vx is kept in VU   *)
(* units per cell, fine enough to follow the friction products.            *)
(***************************************************************************)
U == 840
VU == 1000000

Abs(a) == IF a < 0 THEN -a ELSE a
Min(a, b) == IF a < b THEN a ELSE b
\* Math.floor and Math.ceil of a value in units of u
Floor(a, u) == a \div u
Ceil(a, u) == -((-a) \div u)
\* a * num/den, rounded toward zero
MulFrac(a, num, den) == IF a >= 0 THEN (a * num) \div den ELSE -(((-a) * num) \div den)

(***************************************************************************)
(* Entities (entities.ts).  trail and id are history fields: the positions *)
(* the last integration committed, in order, and the object's identity.    *)
(***************************************************************************)
createPlayer(x, y) ==
  [x |-> x, y |-> y, vx |-> 0, vy |-> 0, width |-> 3, height |-> 3,
   onGround |-> FALSE, health |-> 100, maxHealth |-> 100,
   attackCooldown |-> 0, attackFrame |-> 0, trail |-> <<>>, id |-> 0]

createSlime(x, y) ==
  [x |-> x, y |-> y, vx |-> 0, vy |-> 0, width |-> 2, height |-> 2,
   onGround |-> FALSE, health |-> 30, maxHealth |-> 30,
   jumpCooldown |-> 0, targetX |-> x, trail |-> <<>>, id |-> 0]

\* hoverOffset counts the additions of hoverSpeed (0.05) made so far
createBat(x, y) ==
  [x |-> x, y |-> y, vx |-> 0, vy |-> 0, width |-> 2, height |-> 2,
   onGround |-> FALSE, health |-> 20, maxHealth |-> 20,
   hoverOffset |-> 0, diveCooldown |-> 0, isDiving |-> FALSE, trail |-> <<>>, id |-> 0]

createSpider(x, y) ==
  [x |-> x, y |-> y, vx |-> 0, vy |-> 0, width |-> 2, height |-> 2,
   onGround |-> FALSE, health |-> 25, maxHealth |-> 25,
   climbCooldown |-> 0, isClimbing |-> FALSE, targetY |-> y, trail |-> <<>>, id |-> 0]

\* the tags checkCollision lets an actor pass through
Passable == {Air, Plant, PlayerTag, SlimeTag, SwordTag}

\* mutant: only the box's top-left cell is tested
checkCollisionCorner(entity, g, dx, dy) ==
  LET newX == Floor(entity.x + dx, U)
      newY == Floor(entity.y + dy, U)
  IN \/ OutOfRange(g, newX, newY)
     \/ get(g, newX, newY).type \notin Passable

checkCollision(entity, g, dx, dy) ==
  LET newX == Floor(entity.x + dx, U)
      newY == Floor(entity.y + dy, U)
  IN \E x \in 0 .. entity.width - 1 : \E y \in 0 .. entity.height - 1 :
       \/ OutOfRange(g, newX + x, newY + y)
       \/ get(g, newX + x, newY + y).type \notin Passable

applyGravity(entity, gravity) ==
  LET v == entity.vy + gravity
  IN [entity EXCEPT !.vy = IF v > 5 * U THEN 5 * U ELSE v]

Commit(e) == [e EXCEPT !.trail = Append(@, <<e.x, e.y>>)]

\* mutant: a colliding sub-step grounds the actor whatever its direction
RECURSIVE MoveYFromGrounds(_, _, _, _, _)
MoveYFromGrounds(e, g, stepY, i, steps) ==
  IF i >= steps THEN e
  ELSE IF checkCollision(e, g, 0, stepY)
       THEN [e EXCEPT !.onGround = TRUE, !.vy = 0]
       ELSE MoveYFromGrounds(Commit([e EXCEPT !.y = @ + stepY, !.onGround = FALSE]),
                             g, stepY, i + 1, steps)

\* the vertical loop: sub-steps i .. steps-1 of stepY each
RECURSIVE MoveYFrom(_, _, _, _, _)
MoveYFrom(e, g, stepY, i, steps) ==
  IF i >= steps THEN e
  ELSE IF checkCollision(e, g, 0, stepY)
       THEN IF e.vy > 0 THEN [e EXCEPT !.onGround = TRUE, !.vy = 0]
            ELSE [e EXCEPT !.vy = 0]
       ELSE MoveYFrom(Commit([e EXCEPT !.y = @ + stepY, !.onGround = FALSE]),
                      g, stepY, i + 1, steps)

\* mutant: the whole of vy in one step, only the destination tested
MoveYOneStep(e, g) ==
  IF e.vy = 0 THEN e
  ELSE IF checkCollision(e, g, 0, e.vy)
       THEN IF e.vy > 0 THEN [e EXCEPT !.onGround = TRUE, !.vy = 0]
            ELSE [e EXCEPT !.vy = 0]
       ELSE Commit([e EXCEPT !.y = @ + e.vy, !.onGround = FALSE])

MoveY(e, g) ==
  LET steps == Ceil(Abs(e.vy), U)
      stepY == IF steps = 0 THEN 0 ELSE e.vy \div steps
  IN MoveYFrom(e, g, stepY, 0, steps)

\* the horizontal loop: unit steps i .. stepsX-1
RECURSIVE MoveXFrom(_, _, _, _, _)
MoveXFrom(e, g, stepX, i, stepsX) ==
  IF i >= stepsX THEN e
  ELSE IF checkCollision(e, g, stepX * U, 0)
       THEN [e EXCEPT !.vx = 0]
       ELSE MoveXFrom(Commit([e EXCEPT !.x = @ + stepX * U]), g, stepX, i + 1, stepsX)

MoveX(e, g) ==
  LET stepsX == Ceil(Abs(e.vx), VU)
      stepX == IF e.vx > 0 THEN 1 ELSE -1
  IN MoveXFrom(e, g, stepX, 0, stepsX)

\* mutant: a small vx is not set to 0
FrictionNoSnap(e, num, den) == [e EXCEPT !.vx = MulFrac(e.vx, num, den)]

\* vx *= num/den; if (Math.abs(vx) < 0.1) vx = 0
Friction(e, num, den) ==
  LET v == MulFrac(e.vx, num, den)
  IN [e EXCEPT !.vx = IF Abs(v) * 10 < VU THEN 0 ELSE v]

\* the integration every walking actor runs after gravity; the trail starts
\* with the position the integration starts from
Integrate(e, g, num, den) ==
  Friction(MoveX(MoveY([e EXCEPT !.trail = << <<e.x, e.y>> >>], g), g), num, den)

updatePlayerPhysics(p, g) ==
  LET q == Integrate(applyGravity(p, U \div 2), g, 8, 10)
  IN [q EXCEPT !.attackCooldown = IF @ > 0 THEN @ - 1 ELSE @,
               !.attackFrame = IF @ > 0 THEN @ - 1 ELSE @]

\* mutant: a launch sets a cooldown of 30 and more
SlimeStartShortCooldown(slime, p, rnd) ==
  LET distToPlayer == p.x - slime.x
      s1 == [slime EXCEPT !.jumpCooldown = IF @ > 0 THEN @ - 1 ELSE @]
      s2 == IF s1.onGround /\ s1.jumpCooldown = 0 /\ Abs(distToPlayer) < 30 * U
            THEN [s1 EXCEPT !.vy = -4 * U,
                            !.vx = IF distToPlayer > 0 THEN 2 * VU ELSE -2 * VU,
                            !.jumpCooldown = 30 + rnd]
            ELSE s1
  IN applyGravity(s2, U \div 2)

\* the slime the integration of updateSlimeAI starts from: the cooldown
\* counted down, the launch decided, gravity applied
SlimeStart(slime, p, rnd) ==
  LET distToPlayer == p.x - slime.x
      s1 == [slime EXCEPT !.jumpCooldown = IF @ > 0 THEN @ - 1 ELSE @]
      s2 == IF s1.onGround /\ s1.jumpCooldown = 0 /\ Abs(distToPlayer) < 30 * U
            THEN [s1 EXCEPT !.vy = -4 * U,
                            !.vx = IF distToPlayer > 0 THEN 2 * VU ELSE -2 * VU,
                            !.jumpCooldown = 60 + rnd]
            ELSE s1
  IN applyGravity(s2, U \div 2)

\* mutant: the launch does not ask whether the slime is grounded
updateSlimeAIJumpsInAir(slime, p, g, rnd) ==
  LET distToPlayer == p.x - slime.x
      s1 == [slime EXCEPT !.jumpCooldown = IF @ > 0 THEN @ - 1 ELSE @]
      s2 == IF s1.jumpCooldown = 0 /\ Abs(distToPlayer) < 30 * U
            THEN [s1 EXCEPT !.vy = -4 * U,
                            !.vx = IF distToPlayer > 0 THEN 2 * VU ELSE -2 * VU,
                            !.jumpCooldown = 60 + rnd]
            ELSE s1
  IN Integrate(applyGravity(s2, U \div 2), g, 9, 10)

\* rnd is Math.floor(Math.random() * 40)
updateSlimeAI(slime, p, g, rnd) ==
  Integrate(SlimeStart(slime, p, rnd), g, 9, 10)

\* the spider the integration of updateSpiderAI starts from when it does
\* not climb: s1 is the spider with its cooldown counted down
SpiderStart(s1, p, rnd) ==
  LET distToPlayerX == p.x - s1.x
      s2 == [s1 EXCEPT !.isClimbing = FALSE]
      s3 == IF s2.onGround /\ s2.climbCooldown = 0 /\ Abs(distToPlayerX) < 35 * U
            THEN [s2 EXCEPT !.vy = -(7 * U) \div 2,
                            !.vx = IF distToPlayerX > 0 THEN (5 * VU) \div 2
                                   ELSE -((5 * VU) \div 2),
                            !.climbCooldown = 50 + rnd]
            ELSE s2
  IN applyGravity(s3, U \div 2)

\* mutant: a climbing spider goes through the integration as well
updateSpiderAIClimbIntegrates(spider, p, g, rnd) ==
  LET distToPlayerX == p.x - spider.x
      distToPlayerY == p.y - spider.y
      s1 == [spider EXCEPT !.climbCooldown = IF @ > 0 THEN @ - 1 ELSE @]
      leftWall == checkCollision(s1, g, -U, 0)
      rightWall == checkCollision(s1, g, U, 0)
  IN IF (leftWall \/ rightWall) /\ Abs(distToPlayerY) > 2 * U
     THEN Integrate([s1 EXCEPT !.isClimbing = TRUE,
                               !.vy = IF distToPlayerY > 0 THEN U ELSE -U,
                               !.vx = 0], g, 9, 10)
     ELSE LET s2 == [s1 EXCEPT !.isClimbing = FALSE]
              s3 == IF s2.onGround /\ s2.climbCooldown = 0 /\ Abs(distToPlayerX) < 35 * U
                    THEN [s2 EXCEPT !.vy = -(7 * U) \div 2,
                                    !.vx = IF distToPlayerX > 0 THEN (5 * VU) \div 2
                                           ELSE -((5 * VU) \div 2),
                                    !.climbCooldown = 50 + rnd]
                    ELSE s2
          IN Integrate(applyGravity(s3, U \div 2), g, 9, 10)

\* rnd is Math.floor(Math.random() * 30)
updateSpiderAI(spider, p, g, rnd) ==
  LET distToPlayerX == p.x - spider.x
      distToPlayerY == p.y - spider.y
      MIN_CLIMB_DISTANCE == 2
      s1 == [spider EXCEPT !.climbCooldown = IF @ > 0 THEN @ - 1 ELSE @]
      leftWall == checkCollision(s1, g, -U, 0)
      rightWall == checkCollision(s1, g, U, 0)
  IN IF (leftWall \/ rightWall) /\ Abs(distToPlayerY) > MIN_CLIMB_DISTANCE * U
     THEN LET s2 == [s1 EXCEPT !.isClimbing = TRUE,
                               !.vy = IF distToPlayerY > 0 THEN U ELSE -U,
                               !.vx = 0, !.trail = <<>>]
              y1 == s2.y + s2.vy
              y2 == IF y1 < 0 THEN 0 ELSE y1
              y3 == IF y2 > (g.height - s2.height) * U
                    THEN (g.height - s2.height) * U ELSE y2
          IN [s2 EXCEPT !.y = y3]
     ELSE Integrate(SpiderStart(s1, p, rnd), g, 9, 10)

(***************************************************************************)
(* The bat.  5 * Math.sin(hoverOffset) for hoverOffset = 0.05 * n, in U    *)
(* units, n = 0 .. 125; the table is indexed by n modulo 126 (one period   *)
(* of the sine is 125.66 additions of hoverSpeed).                         *)
(***************************************************************************)
HoverSin ==
  <<
   0, 210, 419, 628, 834, 1039, 1241, 1440, 1636, 1827, 2014, 2195, 2371,
   2542, 2706, 2863, 3013, 3155, 3290, 3416, 3534, 3643, 3743, 3834, 3915,
   3986, 4047, 4098, 4139, 4169, 4189, 4199, 4198, 4187, 4165, 4133, 4090,
   4037, 3974, 3902, 3819, 3727, 3625, 3515, 3396, 3268, 3132, 2988, 2837,
   2679, 2514, 2342, 2165, 1983, 1795, 1603, 1407, 1207, 1005, 800, 593,
   384, 175, -35, -245, -454, -663, -869, -1073, -1275, -1473, -1668,
   -1859, -2045, -2225, -2401, -2570, -2733, -2889, -3037, -3179, -3312,
   -3437, -3553, -3661, -3759, -3848, -3927, -3997, -4056, -4106, -4145,
   -4174, -4192, -4200, -4197, -4184, -4160, -4126, -4082, -4027, -3963,
   -3888, -3804, -3711, -3608, -3496, -3375, -3246, -3108, -2963, -2811,
   -2651, -2485, -2313, -2135, -1951, -1763, -1570, -1374, -1174, -971,
   -765, -558, -349, -139 >>

HoverBob(n) == HoverSin[(n % 126) + 1]

\* mutant: the distance is taken per axis
WithinPerAxis(dx, dy, d) == Abs(dx) < d * U /\ Abs(dy) < d * U

\* distance < d cells, for dx, dy in U units (Math.sqrt is monotone)
Within(dx, dy, d) ==
  /\ Abs(dx) < d * U
  /\ Abs(dy) < d * U
  /\ dx * dx < d * d * U * U - dy * dy

\* mutant: the probe looks at the row that touches the bat's lower edge
ProbesGroundAtEdge(b, g) ==
  LET checkY == Floor(b.y + b.height * U, U)
      below == get(g, Floor(b.x, U), checkY)
  IN checkY < g.height /\ below # NoCell /\ below.type # Air

\* "Stop diving if close to ground": the cell one row under the one that
\* touches the bat's lower edge, in the bat's left column
ProbesGround(b, g) ==
  LET checkY == Floor(b.y + (b.height + 1) * U, U)
      below == get(g, Floor(b.x, U), checkY)
  IN checkY < g.height /\ below # NoCell /\ below.type # Air

\* mutant: the dive is decided before the cooldown is counted down, and the
\* cooldown of a new dive is counted down in the same call
updateBatAIDecidesFirst(bat, p, g) ==
  LET distToPlayerX == p.x - bat.x
      distToPlayerY == p.y - bat.y
      b1 == [bat EXCEPT !.hoverOffset = @ + 1]
      b2a == IF ~b1.isDiving /\ b1.diveCooldown = 0 /\ Within(distToPlayerX, distToPlayerY, 40)
             THEN [b1 EXCEPT !.isDiving = TRUE, !.diveCooldown = 120]
             ELSE b1
      b2 == [b2a EXCEPT !.diveCooldown = IF @ > 0 THEN @ - 1 ELSE @]
      b3 == IF b2.isDiving
            THEN LET d == [b2 EXCEPT !.vx = IF distToPlayerX > 0 THEN 3 * VU ELSE -3 * VU,
                                     !.vy = IF distToPlayerY > 0 THEN 3 * U ELSE -3 * U]
                 IN IF ProbesGround(b2, g)
                    THEN [d EXCEPT !.isDiving = FALSE, !.vy = -4 * U]
                    ELSE d
            ELSE LET targetY == 20 * U + HoverBob(b2.hoverOffset)
                 IN [b2 EXCEPT !.vy = MulFrac(targetY - b2.y, 1, 20),
                               !.vx = IF distToPlayerX > 0 THEN (3 * VU) \div 2
                                      ELSE -((3 * VU) \div 2)]
      x1 == b3.x + MulFrac(b3.vx, U \div 40, VU \div 40)
      y1 == b3.y + b3.vy
      x2 == IF x1 < 0 THEN 0 ELSE x1
      x3 == IF x2 > (g.width - b3.width) * U THEN (g.width - b3.width) * U ELSE x2
      y2 == IF y1 < 0 THEN 0 ELSE y1
  IN [b3 EXCEPT !.x = x3, !.y = y2,
                !.vx = MulFrac(b3.vx, 95, 100), !.vy = MulFrac(b3.vy, 95, 100)]

\* mutant: the new position is not kept in bounds
updateBatAIUnclamped(bat, p, g) ==
  LET distToPlayerX == p.x - bat.x
      distToPlayerY == p.y - bat.y
      b1 == [bat EXCEPT !.hoverOffset = @ + 1,
                        !.diveCooldown = IF @ > 0 THEN @ - 1 ELSE @]
      b2 == IF ~b1.isDiving /\ b1.diveCooldown = 0 /\ Within(distToPlayerX, distToPlayerY, 40)
            THEN [b1 EXCEPT !.isDiving = TRUE, !.diveCooldown = 120]
            ELSE b1
      b3 == IF b2.isDiving
            THEN LET d == [b2 EXCEPT !.vx = IF distToPlayerX > 0 THEN 3 * VU ELSE -3 * VU,
                                     !.vy = IF distToPlayerY > 0 THEN 3 * U ELSE -3 * U]
                 IN IF ProbesGround(b2, g)
                    THEN [d EXCEPT !.isDiving = FALSE, !.vy = -4 * U]
                    ELSE d
            ELSE LET targetY == 20 * U + HoverBob(b2.hoverOffset)
                 IN [b2 EXCEPT !.vy = MulFrac(targetY - b2.y, 1, 20),
                               !.vx = IF distToPlayerX > 0 THEN (3 * VU) \div 2
                                      ELSE -((3 * VU) \div 2)]
      \* vx in units of U: U / VU is (U / 40) / (VU / 40)
      x1 == b3.x + MulFrac(b3.vx, U \div 40, VU \div 40)
      y1 == b3.y + b3.vy
  IN [b3 EXCEPT !.x = x1, !.y = y1,
                !.vx = MulFrac(b3.vx, 95, 100), !.vy = MulFrac(b3.vy, 95, 100)]

updateBatAI(bat, p, g) ==
  LET distToPlayerX == p.x - bat.x
      distToPlayerY == p.y - bat.y
      b1 == [bat EXCEPT !.hoverOffset = @ + 1,
                        !.diveCooldown = IF @ > 0 THEN @ - 1 ELSE @]
      b2 == IF ~b1.isDiving /\ b1.diveCooldown = 0 /\ Within(distToPlayerX, distToPlayerY, 40)
            THEN [b1 EXCEPT !.isDiving = TRUE, !.diveCooldown = 120]
            ELSE b1
      b3 == IF b2.isDiving
            THEN LET d == [b2 EXCEPT !.vx = IF distToPlayerX > 0 THEN 3 * VU ELSE -3 * VU,
                                     !.vy = IF distToPlayerY > 0 THEN 3 * U ELSE -3 * U]
                 IN IF ProbesGround(b2, g)
                    THEN [d EXCEPT !.isDiving = FALSE, !.vy = -4 * U]
                    ELSE d
            ELSE LET targetY == 20 * U + HoverBob(b2.hoverOffset)
                 IN [b2 EXCEPT !.vy = MulFrac(targetY - b2.y, 1, 20),
                               !.vx = IF distToPlayerX > 0 THEN (3 * VU) \div 2
                                      ELSE -((3 * VU) \div 2)]
      \* vx in units of U: U / VU is (U / 40) / (VU / 40)
      x1 == b3.x + MulFrac(b3.vx, U \div 40, VU \div 40)
      y1 == b3.y + b3.vy
      x2 == IF x1 < 0 THEN 0 ELSE x1
      x3 == IF x2 > (g.width - b3.width) * U THEN (g.width - b3.width) * U ELSE x2
      y2 == IF y1 < 0 THEN 0 ELSE y1
  IN [b3 EXCEPT !.x = x3, !.y = y2,
                !.vx = MulFrac(b3.vx, 95, 100), !.vy = MulFrac(b3.vy, 95, 100)]

(***************************************************************************)
(* Combat: strict rectangle overlap, and the sword's hit box.              *)
(***************************************************************************)
\* checkPlayerSlimeCollision, checkPlayerBatCollision, checkPlayerSpiderCollision
checkPlayerEnemyCollision(p, e) ==
  ~(\/ p.x + p.width * U <= e.x
    \/ p.x >= e.x + e.width * U
    \/ p.y + p.height * U <= e.y
    \/ p.y >= e.y + e.height * U)

\* 9 * cos(angle) and 9 * sin(angle) in U units for attackFrame = 0 .. 15,
\* angle = -PI/2 + (1 - attackFrame/15) * PI
TipDX == <<0, 1572, 3075, 4444, 5618, 6547, 7190, 7519, 7519, 7190, 6547, 5618, 4444, 3075, 1572, 0>>
TipDY == <<7560, 7395, 6906, 6116, 5059, 3780, 2336, 790, -790, -2336, -3780, -5059, -6116, -6906, -7395, -7560>>

getSwordHitbox(p, attackFrame) ==
  LET centerX == p.x + (p.width * U) \div 2
      centerY == p.y + (p.height * U) \div 2
      tipX == centerX + TipDX[attackFrame + 1]
      tipY == centerY + TipDY[attackFrame + 1]
  IN [x |-> tipX - 2 * U, y |-> tipY - 2 * U, width |-> 4, height |-> 4]

\* checkSwordSlimeCollision, checkSwordBatCollision, checkSwordSpiderCollision
checkSwordEnemyCollision(swordHitbox, e) ==
  ~(\/ swordHitbox.x + swordHitbox.width * U <= e.x
    \/ swordHitbox.x >= e.x + e.width * U
    \/ swordHitbox.y + swordHitbox.height * U <= e.y
    \/ swordHitbox.y >= e.y + e.height * U)

(***************************************************************************)
(* Grids of the specifications.                                            *)
(***************************************************************************)
IdOf(w, c) == c[2] * w + c[1] + 1

\* a grid with the tags of f on f's domain and Air elsewhere
MkGrid(w, h, f) ==
  [width |-> w, height |-> h,
   grid |-> [c \in Cells(w, h) |->
              IF c \in DOMAIN f THEN Particle(f[c], IdOf(w, c)) ELSE Particle(Air, 0)]]

InitTags == {Dirt, Grass, Stone, Plant}

TypeAt(g, x, y) == g.grid[<<x, y>>].type
Count(g, t) == Cardinality({c \in DOMAIN g.grid : g.grid[c].type = t})
\* where the object with identity i is
PosOfId(g, i) == CHOOSE c \in DOMAIN g.grid : g.grid[c].id = i
Ids(g) == {g.grid[c].id : c \in DOMAIN g.grid} \ {0}

\* the specifications of the grid alone hold no actors
NoActors ==
  /\ player = createPlayer(0, 0)
  /\ slimes = <<>> /\ bats = <<>> /\ spiders = <<>>
  /\ ticks = 0
  /\ game = <<>> /\ hist = <<>>

(***************************************************************************)
(* SpecGrid: any small grid, then updatePhysics() calls.                   *)
(***************************************************************************)
InitGrid ==
  /\ \E S \in {T \in SUBSET Cells(GridW, GridH) : Cardinality(T) <= MaxLoose} :
       \E f \in [S -> InitTags] : grid = MkGrid(GridW, GridH, f)
  /\ pre = grid
  /\ nsteps = 0
  /\ NoActors

Step ==
  /\ nsteps < MaxSteps
  /\ grid' \in updatePhysics(grid)
  /\ pre' = grid
  /\ nsteps' = nsteps + 1
  /\ UNCHANGED <<actorVars, ticks, driverVars>>

NextGrid == Step

SpecGrid == InitGrid /\ [][NextGrid]_vars

(***************************************************************************)
(* SpecInert: grids that hold every tag of ParticleType, then              *)
(* updatePhysics() calls.                                                  *)
(***************************************************************************)
InitInert ==
  /\ \E S \in {T \in SUBSET Cells(InertW, InertH) : Cardinality(T) <= MaxInert} :
       \E f \in [S -> ParticleType \ {Air}] : grid = MkGrid(InertW, InertH, f)
  /\ pre = grid
  /\ nsteps = 0
  /\ NoActors

SpecInert == InitInert /\ [][NextGrid]_vars

(***************************************************************************)
(* SpecAccess: one call of get, set or swap on a small grid, at            *)
(* coordinates from one cell outside the grid to one cell outside on the   *)
(* other side.  hist is the call and what get returned.                    *)
(***************************************************************************)
AccessTags == {Dirt, Stone}
AccessXs == -1 .. AccW
AccessYs == -1 .. AccH

Call(op, x1, y1, x2, y2, got) ==
  [op |-> op, x1 |-> x1, y1 |-> y1, x2 |-> x2, y2 |-> y2, got |-> got]

InitAccess ==
  /\ \E S \in {T \in SUBSET Cells(AccW, AccH) : Cardinality(T) <= MaxAccCells} :
       \E f \in [S -> AccessTags] : grid = MkGrid(AccW, AccH, f)
  /\ pre = grid /\ nsteps = 0 /\ ticks = 0
  /\ player = createPlayer(0, 0)
  /\ slimes = <<>> /\ bats = <<>> /\ spiders = <<>>
  /\ game = <<>>
  /\ hist = Call("none", 0, 0, 0, 0, NoCell)

AccessGet ==
  /\ nsteps = 0
  /\ \E x \in AccessXs : \E y \in AccessYs :
       hist' = Call("get", x, y, x, y, get(grid, x, y))
  /\ grid' = grid /\ pre' = grid /\ nsteps' = 1
  /\ UNCHANGED <<actorVars, ticks, game>>

AccessSet ==
  /\ nsteps = 0
  /\ \E x \in AccessXs : \E y \in AccessYs :
       /\ grid' = set(grid, x, y, Particle(Grass, 99))
       /\ hist' = Call("set", x, y, x, y, NoCell)
  /\ pre' = grid /\ nsteps' = 1
  /\ UNCHANGED <<actorVars, ticks, game>>

AccessSwap ==
  /\ nsteps = 0
  /\ \E x1 \in AccessXs : \E y1 \in AccessYs : \E x2 \in AccessXs : \E y2 \in AccessYs :
       /\ grid' = swap(grid, x1, y1, x2, y2)
       /\ hist' = Call("swap", x1, y1, x2, y2, NoCell)
  /\ pre' = grid /\ nsteps' = 1
  /\ UNCHANGED <<actorVars, ticks, game>>

NextAccess == AccessGet \/ AccessSet \/ AccessSwap

SpecAccess == InitAccess /\ [][NextAccess]_vars

(***************************************************************************)
(* SpecFall: the settling scenario.  A ScenW x ScenH grid whose bottom row *)
(* is solid and whose other cells are Air; a Dirt is placed in row 0.      *)
(***************************************************************************)
FloorTags == {Dirt, Stone, Grass}

InitFall ==
  /\ \E x0 \in 0 .. ScenW - 1 : \E ft \in FloorTags :
       grid = MkGrid(ScenW, ScenH,
                     [c \in {<<x0, 0>>} \cup ((0 .. ScenW - 1) \X {ScenH - 1}) |->
                        IF c[2] = 0 THEN Dirt ELSE ft])
  /\ pre = grid
  /\ nsteps = 0
  /\ NoActors

StepFall ==
  /\ nsteps < ScenH
  /\ grid' \in updatePhysics(grid)
  /\ pre' = grid
  /\ nsteps' = nsteps + 1
  /\ UNCHANGED <<actorVars, ticks, driverVars>>

NextFall == StepFall

SpecFall == InitFall /\ [][NextFall]_vars

(***************************************************************************)
(* The player's intents (Game.update): keys is the set of keys held,       *)
(* activePowerUp the power-up the closure sees.                            *)
(***************************************************************************)
\* mutant: the attack does not ask for the cooldown
ApplyIntentsMash(p, keys, activePowerUp) ==
  LET sprint == "shift" \in keys
      \* (sprint ? 4 : 2) * speedMultiplier, speedMultiplier 1.5 or 1
      moveSpeed == IF activePowerUp = "speed"
                   THEN ((IF sprint THEN 4 ELSE 2) * 3 * VU) \div 2
                   ELSE (IF sprint THEN 4 ELSE 2) * VU
      p1 == IF "a" \in keys THEN [p EXCEPT !.vx = -moveSpeed]
            ELSE IF "d" \in keys THEN [p EXCEPT !.vx = moveSpeed] ELSE p
      p2 == IF "w" \in keys /\ p1.onGround
            THEN [p1 EXCEPT !.vy = -7 * U, !.onGround = FALSE] ELSE p1
  IN IF " " \in keys
     THEN [p2 EXCEPT !.attackCooldown = 30, !.attackFrame = 15] ELSE p2

ApplyIntents(p, keys, activePowerUp) ==
  LET sprint == "shift" \in keys
      \* (sprint ? 4 : 2) * speedMultiplier, speedMultiplier 1.5 or 1
      moveSpeed == IF activePowerUp = "speed"
                   THEN ((IF sprint THEN 4 ELSE 2) * 3 * VU) \div 2
                   ELSE (IF sprint THEN 4 ELSE 2) * VU
      p1 == IF "a" \in keys THEN [p EXCEPT !.vx = -moveSpeed]
            ELSE IF "d" \in keys THEN [p EXCEPT !.vx = moveSpeed] ELSE p
      p2 == IF "w" \in keys /\ p1.onGround
            THEN [p1 EXCEPT !.vy = -7 * U, !.onGround = FALSE] ELSE p1
  IN IF " " \in keys /\ p2.attackCooldown = 0
     THEN [p2 EXCEPT !.attackCooldown = 30, !.attackFrame = 15] ELSE p2

(***************************************************************************)
(* SpecKin: one walking actor (the player, a slime or a spider) on a grid  *)
(* that does not change, started collision-free with any velocity.         *)
(***************************************************************************)
\* a KinW x KinH grid of Air with one horizontal Stone segment
KinGrids ==
  {MkGrid(KinW, KinH, [c \in {d \in Cells(KinW, KinH) :
                                d[2] = sy /\ d[1] >= sx /\ d[1] < sx + len} |-> Stone]) :
     sx \in 0 .. KinW - 1, sy \in 0 .. KinH - 1, len \in 0 .. MaxSeg}

\* every vy the code can hold when an integration starts, before gravity
VySet == {k * (U \div 2) : k \in -14 .. 10}
VxSet == {-6 * VU, 0, (16 * VU) \div 10, 4 * VU}
KinKeys == {{}, {"a", "shift"}, {"d"}, {"w"}}

\* where an actor of the given width and height starts
StartSpots(w, h) == {<<x * U, y * U>> : x \in 0 .. KinW - w, y \in {0, KinH - h}}

Moving(e, vx, vy) == [e EXCEPT !.vx = vx, !.vy = vy]

InitKin ==
  /\ grid \in KinGrids
  /\ pre = grid /\ nsteps = 0 /\ ticks = 0
  /\ game = <<>> /\ hist = <<>>
  /\ bats = <<>>
  /\ \E vx \in VxSet : \E vy \in VySet :
       \/ /\ \E c \in StartSpots(3, 3) : player = Moving(createPlayer(c[1], c[2]), vx, vy)
          /\ slimes = <<>> /\ spiders = <<>>
       \/ /\ \E c \in StartSpots(3, 3) : player = createPlayer(c[1], c[2])
          /\ \E c \in StartSpots(2, 2) : slimes = <<Moving(createSlime(c[1], c[2]), vx, vy)>>
          /\ spiders = <<>>
       \/ /\ \E c \in StartSpots(3, 3) : player = createPlayer(c[1], c[2])
          /\ \E c \in StartSpots(2, 2) : spiders = <<Moving(createSpider(c[1], c[2]), vx, vy)>>
          /\ slimes = <<>>
  /\ ~checkCollision(player, grid, 0, 0)
  /\ \A i \in DOMAIN slimes : ~checkCollision(slimes[i], grid, 0, 0)
  /\ \A i \in DOMAIN spiders : ~checkCollision(spiders[i], grid, 0, 0)

KinPlayer ==
  /\ slimes = <<>> /\ spiders = <<>> /\ ticks < MaxKinTicks
  /\ \E keys \in KinKeys :
       player' = updatePlayerPhysics(ApplyIntents(player, keys, "none"), grid)
  /\ ticks' = ticks + 1
  /\ UNCHANGED <<gridVars, slimes, bats, spiders, driverVars>>

KinSlime ==
  /\ slimes # <<>> /\ ticks < MaxKinTicks
  /\ \E rnd \in {0, 39} : slimes' = <<updateSlimeAI(slimes[1], player, grid, rnd)>>
  /\ ticks' = ticks + 1
  /\ UNCHANGED <<gridVars, player, bats, spiders, driverVars>>

KinSpider ==
  /\ spiders # <<>> /\ ticks < MaxKinTicks
  /\ \E rnd \in {0, 29} : spiders' = <<updateSpiderAI(spiders[1], player, grid, rnd)>>
  /\ ticks' = ticks + 1
  /\ UNCHANGED <<gridVars, player, slimes, bats, driverVars>>

NextKin == KinPlayer \/ KinSlime \/ KinSpider

SpecKin == InitKin /\ [][NextKin]_vars

(***************************************************************************)
(* SpecFull: the player and the grid through full ticks.  The grid has a   *)
(* floor of Stone and some loose Dirt or Grass; the player starts at rest  *)
(* and collision-free.  A tick is update()'s player part and the           *)
(* updatePhysics() call that follows it.                                   *)
(***************************************************************************)
InitFull ==
  /\ \E S \in {T \in SUBSET Cells(FullW, FullH - 1) : Cardinality(T) <= MaxFullLoose} :
       \E f \in [S -> {Dirt, Grass}] :
         grid = MkGrid(FullW, FullH,
                       [c \in S \cup ((0 .. FullW - 1) \X {FullH - 1}) |->
                          IF c[2] = FullH - 1 THEN Stone ELSE f[c]])
  /\ pre = grid /\ nsteps = 0 /\ ticks = 0
  /\ \E x \in 0 .. FullW - 3 : \E y \in {0, FullH - 4} : player = createPlayer(x * U, y * U)
  /\ ~checkCollision(player, grid, 0, 0)
  /\ slimes = <<>> /\ bats = <<>> /\ spiders = <<>>
  /\ game = <<>> /\ hist = <<>>

FullTick ==
  /\ ticks < MaxFullTicks
  /\ \E keys \in KinKeys :
       player' = updatePlayerPhysics(ApplyIntents(player, keys, "none"), grid)
  /\ grid' \in updatePhysics(grid)
  /\ pre' = grid
  /\ nsteps' = nsteps + 1
  /\ ticks' = ticks + 1
  /\ UNCHANGED <<slimes, bats, spiders, driverVars>>

NextFull == FullTick

SpecFull == InitFull /\ [][NextFull]_vars

(***************************************************************************)
(* SpecColl: one call of checkCollision for a 2 x 2 box on a small grid    *)
(* whose cells hold any tag of ParticleType.  hist is the call and its     *)
(* result.                                                                 *)
(***************************************************************************)
CollSpots == {<<0, 0>>, <<U \div 2, U>>}
CollDX == {-U, 0, U}
CollDY == {0, U \div 2, U}

InitColl ==
  /\ \E S \in {T \in SUBSET Cells(CollW, CollH) : Cardinality(T) <= MaxCollCells} :
       \E f \in [S -> ParticleType \ {Air}] : grid = MkGrid(CollW, CollH, f)
  /\ pre = grid /\ nsteps = 0 /\ ticks = 0
  /\ player = createPlayer(0, 0)
  /\ \E c \in CollSpots : slimes = <<createSlime(c[1], c[2])>>
  /\ bats = <<>> /\ spiders = <<>>
  /\ game = <<>>
  /\ hist = [dx |-> 0, dy |-> 0, hit |-> FALSE]

CollCheck ==
  /\ nsteps = 0
  /\ \E dx \in CollDX : \E dy \in CollDY :
       hist' = [dx |-> dx, dy |-> dy, hit |-> checkCollision(slimes[1], grid, dx, dy)]
  /\ nsteps' = 1
  /\ UNCHANGED <<grid, pre, actorVars, ticks, game>>

NextColl == CollCheck

SpecColl == InitColl /\ [][NextColl]_vars

(***************************************************************************)
(* findSpawnPosition (level.ts).  draws is the set of values the probes'   *)
(* Math.floor(Math.random() * (grid.width - width)) can take; the result   *)
(* is the set of positions the call can return.                            *)
(***************************************************************************)
\* the test both inner probes make of a cell: grid.get gave a particle and
\* it is neither Air nor Plant
Blocks(p) == p # NoCell /\ p.type # Air /\ p.type # Plant

\* the checkX loop from column checkX on: hasFloor && hasSpace at its end
RECURSIVE ProbeColumns(_, _, _, _, _, _)
ProbeColumns(g, width, x, y, checkX, hasFloor) ==
  IF checkX >= width THEN hasFloor
  ELSE IF Blocks(get(g, x + checkX, y)) THEN FALSE
  ELSE ProbeColumns(g, width, x, y, checkX + 1,
                    hasFloor \/ Blocks(get(g, x + checkX, y + 1)))

\* mutant: hasFloor is not asked for
SpawnRowFitsNoFloor(g, width, x, y) == ProbeColumns(g, width, x, y, 0, TRUE)

SpawnRowFits(g, width, x, y) == ProbeColumns(g, width, x, y, 0, FALSE)

NoRow == -1
Attempts == 100

\* the y loop from row y on: the first row that fits, or NoRow
RECURSIVE ScanColumn(_, _, _, _)
ScanColumn(g, width, x, y) ==
  IF y >= g.height - 10 THEN NoRow
  ELSE IF SpawnRowFits(g, width, x, y) THEN y
  ELSE ScanColumn(g, width, x, y + 1)

\* mutant: the fallback is not centred
FallbackAtHalf(g, width) == <<g.width \div 2, 10>>

Fallback(g, width) == <<g.width \div 2 - width \div 2, 10>>

findSpawnPosition(g, width, draws) ==
  LET found == {x \in draws : ScanColumn(g, width, x, 0) # NoRow}
  IN {<<x, ScanColumn(g, width, x, 0)>> : x \in found}
       \cup (IF found # draws THEN {Fallback(g, width)} ELSE {})

(***************************************************************************)
(* SpecSpawn: one call of findSpawnPosition on a small grid, attempt by    *)
(* attempt.  game.attempt is the number of attempts that failed, game.x    *)
(* the last draw, game.pos the position returned.                          *)
(***************************************************************************)
SpawnWidths == {1, 2}
SpawnTags == {Plant, Stone}

\* the rows the probes read: 0 .. height - 10
ProbedCells == (0 .. SpawnGW - 1) \X (0 .. SpawnGH - 10)

InitSpawn ==
  /\ \E S \in {T \in SUBSET ProbedCells : Cardinality(T) <= MaxSpawnCells} :
       \E f \in [S -> SpawnTags] : grid = MkGrid(SpawnGW, SpawnGH, f)
  /\ pre = grid /\ nsteps = 0 /\ ticks = 0
  /\ player = createPlayer(0, 0)
  /\ slimes = <<>> /\ bats = <<>> /\ spiders = <<>>
  /\ \E width \in SpawnWidths :
       game = [pc |-> "probing", width |-> width, attempt |-> 0, x |-> 0,
               found |-> FALSE, pos |-> <<0, 0>>]
  /\ hist = <<>>

\* one pass of the attempt loop
SpawnAttempt ==
  /\ game.pc = "probing" /\ game.attempt < Attempts
  /\ \E x \in 0 .. grid.width - game.width - 1 :
       LET y == ScanColumn(grid, game.width, x, 0)
       IN game' = IF y # NoRow
                  THEN [game EXCEPT !.pc = "done", !.x = x, !.found = TRUE, !.pos = <<x, y>>]
                  ELSE [game EXCEPT !.attempt = @ + 1, !.x = x]
  /\ UNCHANGED <<gridVars, actorVars, ticks, hist>>

\* the return after the loop
SpawnFallback ==
  /\ game.pc = "probing" /\ game.attempt >= Attempts
  /\ game' = [game EXCEPT !.pc = "done", !.pos = Fallback(grid, game.width)]
  /\ UNCHANGED <<gridVars, actorVars, ticks, hist>>

NextSpawn == SpawnAttempt \/ SpawnFallback

SpecSpawn == InitSpawn /\ [][NextSpawn]_vars

(***************************************************************************)
(* generateLevel (level.ts), on the grid the game makes (GRID_WIDTH x      *)
(* GRID_HEIGHT).  A pass state is the grid and the log of its writes that  *)
(* did not land on an Air cell of the grid: the pass, the cell and what    *)
(* the cell held.                                                          *)
(***************************************************************************)
GRID_WIDTH == 120
GRID_HEIGHT == 80

\* Math.floor(grid.height * 0.7)
groundLevel(g) == (g.height * 7) \div 10

\* Math.floor(Math.sin(x * 0.1) * 3) for x = 0 .. 119
SinVariation ==
  <<0, 0, 0, 0, 1, 1, 1, 1, 2, 2, 2, 2, 2, 2, 2, 2, 2, 2, 2, 2, 2, 2, 2, 2,
    2, 1, 1, 1, 1, 0, 0, 0, -1, -1, -1, -2, -2, -2, -2, -3, -3, -3, -3, -3,
    -3, -3, -3, -3, -3, -3, -3, -3, -3, -3, -3, -3, -2, -2, -2, -2, -1, -1,
    -1, 0, 0, 0, 0, 1, 1, 1, 1, 2, 2, 2, 2, 2, 2, 2, 2, 2, 2, 2, 2, 2, 2, 2,
    2, 1, 1, 1, 1, 0, 0, 0, 0, -1, -1, -1, -2, -2, -2, -2, -3, -3, -3, -3,
    -3, -3, -3, -3, -3, -3, -3, -3, -3, -3, -3, -3, -3, -2>>

TerrainHeight(g, x) == groundLevel(g) + SinVariation[x + 1]

\* the outcomes of the terrain pass's draws: which deep cells turn to Stone
\* (Math.random() < 0.3), and the plant a column gets (Math.random() < 0.1,
\* plantHeight 1 .. 3; 0 is no plant)
StoneDraws == {"none", "even"}
PlantDraws == {0, 3}
StoneAt(draw, x, y) == draw = "even" /\ (x + y) % 2 = 0
PlantOf(draw, x) == IF x % 5 = 0 THEN draw ELSE 0

\* mutant: Stone from 8 rows below the cap on
TerrainShallowStone(g, stone, plant) ==
  [g EXCEPT !.grid =
     [c \in DOMAIN g.grid |->
        LET x == c[1]
            y == c[2]
            height == TerrainHeight(g, x)
        IN IF y >= height
           THEN IF y = height THEN Particle(Grass, 0)
                ELSE IF y >= height + 8 /\ StoneAt(stone, x, y) THEN Particle(Stone, 0)
                ELSE Particle(Dirt, 0)
           ELSE IF height > 0 /\ y >= 0 /\ y <= height - 1 /\ y >= height - PlantOf(plant, x)
                THEN Particle(Plant, 0)
                ELSE g.grid[c]]]

\* the base terrain and the plants: the cells the first loop leaves
Terrain(g, stone, plant) ==
  [g EXCEPT !.grid =
     [c \in DOMAIN g.grid |->
        LET x == c[1]
            y == c[2]
            height == TerrainHeight(g, x)
        IN IF y >= height
           THEN IF y = height THEN Particle(Grass, 0)
                ELSE IF y > height + 8 /\ StoneAt(stone, x, y) THEN Particle(Stone, 0)
                ELSE Particle(Dirt, 0)
           ELSE IF height > 0 /\ y >= 0 /\ y <= height - 1 /\ y >= height - PlantOf(plant, x)
                THEN Particle(Plant, 0)
                ELSE g.grid[c]]]

\* grid.set(x, y, {type: tag, updated: false}) in a pass
Write(st, pass, x, y, tag) ==
  [grid |-> set(st.grid, x, y, Particle(tag, 0)),
   over |-> IF get(st.grid, x, y).type = Air THEN st.over
            ELSE st.over \cup {[pass |-> pass, x |-> x, y |-> y,
                                was |-> get(st.grid, x, y).type]}]

\* the x loop of one floating platform, from column x on
RECURSIVE PlatformColumns(_, _, _, _, _)
PlatformColumns(st, x, platformX, platformY, platformWidth) ==
  IF ~(x < platformX + platformWidth /\ x < st.grid.width) THEN st
  ELSE IF get(st.grid, x, platformY).type = Air
  THEN LET cap == Write(st, "platform", x, platformY, Grass)
           layer == IF platformY + 1 < st.grid.height
                    THEN Write(cap, "platform", x, platformY + 1, Dirt)
                    ELSE cap
       IN PlatformColumns(layer, x + 1, platformX, platformY, platformWidth)
  ELSE PlatformColumns(st, x + 1, platformX, platformY, platformWidth)

\* the x loop of one row of a pillar, from column x on
RECURSIVE PillarColumns(_, _, _, _, _)
PillarColumns(st, x, y, pillarX, pillarWidth) ==
  IF ~(x < pillarX + pillarWidth /\ x < st.grid.width) THEN st
  ELSE PillarColumns(IF y >= 0 THEN Write(st, "pillar", x, y, Stone) ELSE st,
                     x + 1, y, pillarX, pillarWidth)

\* the y loop of one pillar, from row y on
RECURSIVE PillarRows(_, _, _, _)
PillarRows(st, y, pillarX, pillarWidth) ==
  IF y >= groundLevel(st.grid) THEN st
  ELSE PillarRows(PillarColumns(st, pillarX, y, pillarX, pillarWidth),
                  y + 1, pillarX, pillarWidth)

(***************************************************************************)
(* SpecLevel: generateLevel on the new grid, pass by pass: the terrain,    *)
(* then one platform or one pillar per step.  game.i counts the platforms  *)
(* or pillars made; hist.over is the log of the writes onto non-Air cells. *)
(***************************************************************************)
PlatformCounts == {3}          \* 3 + Math.floor(Math.random() * 3)
PlatformXs == {10}             \* 10 + Math.floor(Math.random() * (grid.width - 30))
PlatformYs == {20, 21, 44}     \* 20 + Math.floor(Math.random() * 25)
PlatformWidths == {5, 12}      \* 5 + Math.floor(Math.random() * 8)
PillarCounts == {2}            \* 2 + Math.floor(Math.random() * 2)
PillarXs == {15, 40}           \* 15 + Math.floor(Math.random() * (grid.width - 30))
PillarHeights == {8, 19}       \* 8 + Math.floor(Math.random() * 12)
PillarWidths == {2}            \* 2 + Math.floor(Math.random() * 2)

InitLevel ==
  /\ grid = initializeGrid(GRID_WIDTH, GRID_HEIGHT)
  /\ pre = grid /\ nsteps = 0 /\ ticks = 0
  /\ player = createPlayer(0, 0)
  /\ slimes = <<>> /\ bats = <<>> /\ spiders = <<>>
  /\ game = [pc |-> "terrain", i |-> 0, count |-> 0]
  /\ hist = [over |-> {}]

LevelTerrain ==
  /\ game.pc = "terrain"
  /\ \E stone \in StoneDraws : \E plant \in PlantDraws :
       grid' = Terrain(grid, stone, plant)
  /\ pre' = grid
  /\ game' = [game EXCEPT !.pc = "platforms"]
  /\ UNCHANGED <<nsteps, actorVars, ticks, hist>>

LevelPlatform ==
  /\ game.pc = "platforms"
  /\ \E count \in IF game.i = 0 THEN PlatformCounts ELSE {game.count} :
     \E platformX \in PlatformXs : \E platformY \in PlatformYs :
     \E platformWidth \in PlatformWidths :
       LET st == PlatformColumns([grid |-> grid, over |-> hist.over],
                                 platformX, platformX, platformY, platformWidth)
       IN /\ grid' = st.grid
          /\ hist' = [hist EXCEPT !.over = st.over]
          /\ game' = IF game.i + 1 < count
                     THEN [game EXCEPT !.i = @ + 1, !.count = count]
                     ELSE [game EXCEPT !.pc = "pillars", !.i = 0, !.count = 0]
  /\ pre' = grid
  /\ UNCHANGED <<nsteps, actorVars, ticks>>

LevelPillar ==
  /\ game.pc = "pillars"
  /\ \E count \in IF game.i = 0 THEN PillarCounts ELSE {game.count} :
     \E pillarX \in PillarXs : \E pillarHeight \in PillarHeights :
     \E pillarWidth \in PillarWidths :
       LET st == PillarRows([grid |-> grid, over |-> hist.over],
                            groundLevel(grid) - pillarHeight, pillarX, pillarWidth)
       IN /\ grid' = st.grid
          /\ hist' = [hist EXCEPT !.over = st.over]
          /\ game' = IF game.i + 1 < count
                     THEN [game EXCEPT !.i = @ + 1, !.count = count]
                     ELSE [game EXCEPT !.pc = "done", !.i = 0, !.count = 0]
  /\ pre' = grid
  /\ UNCHANGED <<nsteps, actorVars, ticks>>

NextLevel == LevelTerrain \/ LevelPlatform \/ LevelPillar

SpecLevel == InitLevel /\ [][NextLevel]_vars

(***************************************************************************)
(* The tick driver (Game.tsx).                                             *)
(*                                                                         *)
(* game: pc is where update() stands ("idle" between two calls), index and *)
(* length are the running forEach's index and the length it read when it   *)
(* started; now is the value of performance.now(); gameTime and            *)
(* lastSpawnTime are in ticks (dt is 1/30 s); powerUpState is the          *)
(* activePowerUp React holds, activePowerUp and keys the values update()'s *)
(* closure holds.                                                          *)
(* hist: log is the sequence of the current tick's events, atStart the     *)
(* identities in the rosters when the tick began, damage the contact       *)
(* damage applications so far, hits the melee hits of the current tick.    *)
(***************************************************************************)
PowerUpType == {"speed", "shield", "damage"}
NoPowerUp == "none"

\* the values drawn for the inputs of a tick
TickKeys == {{}, {" ", "d"}}
TickPowerUps == {NoPowerUp, "damage", "shield"}
TickDeltas == {0, 499}     \* clock time between two ticks
ReadDeltas == {1}          \* clock time a read that is used adds
SpawnDraws == {0, 9}       \* Math.floor(Math.random() * (grid.width - width))
ResetDraws == {0}          \* the same, in resetGame
BatDrawsX == {9 * U}       \* Math.random() * (grid.width - 2)
BatDrawsY == {15 * U}      \* 15 + Math.random() * 10, 10 + Math.random() * 15

\* the level of SpecTick, in the place of the one generateLevel draws: a
\* floor of Stone over the whole width, and a loose Dirt in the top row
Level ==
  MkGrid(TickW, TickH,
         [c \in ((0 .. TickW - 1) \X {GroundRow}) \cup {<<TickW - 1, 0>>} |->
            IF c[2] = GroundRow THEN Stone ELSE Dirt])

WithId(e, i) == [e EXCEPT !.id = i]
\* an event of the log: overlap and hurt tell whether the callback found the
\* player and the enemy overlapping, and whether it applied contact damage
Ev(kind, id, index) ==
  [kind |-> kind, id |-> id, index |-> index, overlap |-> FALSE, hurt |-> FALSE]

\* Array.prototype.splice(index, 1)
Splice(roster, index) ==
  SubSeq(roster, 1, index) \o SubSeq(roster, index + 2, Len(roster))

RosterIds(roster) == {roster[i].id : i \in DOMAIN roster}
EnemyIds == RosterIds(slimes) \cup RosterIds(bats) \cup RosterIds(spiders)

(***************************************************************************)
(* SpecTick: the game some time after its start, between two ticks.  The   *)
(* player stands where findSpawnPosition put it (the position is the top   *)
(* row of its box, so the box reaches into the floor).  The rosters have   *)
(* the sizes the game starts with; an enemy is worn down and in the reach  *)
(* of the sword, or at the player, or away from both.  A slime that has    *)
(* hopped out of its spawn position rests 1.75 cells above the floor row,  *)
(* a spider 1.5 cells.                                                     *)
(***************************************************************************)
SpawnY == (GroundRow - 1) * U
SlimeRestY == GroundRow * U - (7 * U) \div 4
SpiderRestY == GroundRow * U - (3 * U) \div 2

InitPlayers ==
  {[createPlayer(0, SpawnY) EXCEPT !.onGround = TRUE, !.attackFrame = f,
                                   !.attackCooldown = IF f > 0 THEN f + 15 ELSE 0] :
     f \in {0, 9}}

RestingSlime(x, h) ==
  [createSlime(x, SlimeRestY) EXCEPT !.onGround = TRUE, !.jumpCooldown = 50, !.health = h]

InitSlimes == {RestingSlime(9 * U, 2), RestingSlime(9 * U, 4), RestingSlime(U, 30)}

HoveringBat(x, y, c, h) ==
  [createBat(x, y) EXCEPT !.diveCooldown = c, !.hoverOffset = 130 - c, !.health = h]

InitBats == {HoveringBat(9 * U, U, 100, 2), HoveringBat(U, 2 * U, 100, 20)}

InitSpiders ==
  {[createSpider(9 * U, SpiderRestY) EXCEPT !.onGround = TRUE, !.climbCooldown = 40,
                                            !.health = 2],
   createSpider(0, SpawnY)}

NewGame(now) ==
  [pc |-> "idle", index |-> 0, length |-> 0, now |-> now, lastDamageTime |-> 0,
   gameOver |-> FALSE, isPaused |-> FALSE, gameTime |-> 0, lastSpawnTime |-> 0,
   healthPickups |-> <<>>, powerUps |-> <<>>, keys |-> {},
   powerUpState |-> NoPowerUp, activePowerUp |-> NoPowerUp]

InitTick ==
  /\ grid = Level /\ pre = grid /\ nsteps = 0 /\ ticks = 0
  /\ player \in InitPlayers
  /\ \E a \in InitSlimes : \E b \in InitSlimes :
       slimes = <<WithId(a, 1), WithId(b, 2), WithId(RestingSlime(5 * U, 30), 3)>>
  /\ \E a \in InitBats :
       bats = <<WithId(a, 4), WithId(HoveringBat(9 * U, 15 * U, 60, 20), 5)>>
  /\ \E a \in InitSpiders : spiders = <<WithId(a, 6)>>
  /\ \E power \in TickPowerUps :
       game = [NewGame(1000) EXCEPT !.gameTime = 300, !.powerUpState = power,
                                    !.activePowerUp = power]
  /\ hist = [log |-> <<>>, atStart |-> {}, damage |-> <<>>, hits |-> {},
             nextId |-> 7, resets |-> 0]

\* mutant: the enemies are updated right after the player
AfterPlayerSkipsStep == "slimes"

\* what update() does after updatePlayerPhysics
AfterPlayer == "grid"

\* the statement of update() that runs next, from kind on: an empty
\* roster's forEach calls nothing
Enter(kind, sl, bt, sp) ==
  IF kind = "grid" THEN [pc |-> "grid", index |-> 0, length |-> 0]
  ELSE IF kind = "slimes" /\ Len(sl) > 0 THEN [pc |-> "slimes", index |-> 0, length |-> Len(sl)]
  ELSE IF kind \in {"slimes", "bats"} /\ Len(bt) > 0
       THEN [pc |-> "bats", index |-> 0, length |-> Len(bt)]
  ELSE IF kind \in {"slimes", "bats", "spiders"} /\ Len(sp) > 0
       THEN [pc |-> "spiders", index |-> 0, length |-> Len(sp)]
  ELSE [pc |-> "end", index |-> 0, length |-> 0]

\* after the callback of index: the next index of this forEach, or the next
\* forEach
Continue(kind, next, sl, bt, sp) ==
  IF game.index + 1 < game.length
  THEN [pc |-> kind, index |-> game.index + 1, length |-> game.length]
  ELSE Enter(next, sl, bt, sp)

At3(g3) == [game EXCEPT !.pc = g3.pc, !.index = g3.index, !.length = g3.length]

\* the activePowerUp update()'s closure holds: the game loop's effect runs
\* again, and takes the value React holds, when keys, gameOver or isPaused
\* changed
Closure(keys) == IF keys # game.keys THEN game.powerUpState ELSE game.activePowerUp

TickBegin ==
  /\ game.pc = "idle" /\ ~game.gameOver /\ ~game.isPaused
  /\ ticks < MaxTicks
  /\ \E keys \in TickKeys : \E d \in TickDeltas :
       LET power == Closure(keys)
       IN /\ player' = updatePlayerPhysics(ApplyIntents(player, keys, power), grid)
          /\ game' = [At3(Enter(AfterPlayer, slimes, bats, spiders))
                       EXCEPT !.now = @ + d, !.gameTime = @ + 1, !.keys = keys,
                              !.activePowerUp = power]
  /\ hist' = [hist EXCEPT !.log = <<Ev("player", 0, 0)>>, !.atStart = EnemyIds,
                          !.hits = {}]
  /\ ticks' = ticks + 1
  /\ UNCHANGED <<gridVars, slimes, bats, spiders>>

TickGrid ==
  /\ game.pc = "grid"
  /\ grid' \in updatePhysics(grid)
  /\ pre' = grid
  /\ nsteps' = nsteps + 1
  /\ game' = At3(Enter("slimes", slimes, bats, spiders))
  /\ hist' = [hist EXCEPT !.log = Append(@, Ev("step", 0, 0))]
  /\ UNCHANGED <<actorVars, ticks>>

\* mutant: the sword always takes 2
MeleeDamageFlat(activePowerUp) == 2

MeleeDamage(activePowerUp) == IF activePowerUp = "damage" THEN 4 ELSE 2

\* mutant: an enemy is removed only below zero
DeadBelowZero(e) == e.health < 0

Dead(e) == e.health <= 0

\* mutant: the cooldown is not consulted
CooledDownAlways(currentTime, lastDamageTime) == TRUE

CooledDown(currentTime, lastDamageTime) == currentTime - lastDamageTime > 500

\* the combat of one callback: e is the enemy after its AI update, contact
\* its contact damage, d the clock time since the last read.  The clock's
\* value is used only if the player and the enemy overlap.
Fight(e, contact, d) ==
  LET currentTime == game.now + d
      overlap == checkPlayerEnemyCollision(player, e)
      hurt == /\ overlap
              /\ CooledDown(currentTime, game.lastDamageTime)
              /\ game.activePowerUp # "shield"
      p1 == IF hurt THEN [player EXCEPT !.health = @ - contact] ELSE player
      hit == /\ p1.attackFrame > 0
             /\ checkSwordEnemyCollision(getSwordHitbox(p1, p1.attackFrame), e)
      e1 == IF hit THEN [e EXCEPT !.health = @ - MeleeDamage(game.activePowerUp)] ELSE e
  IN [player |-> p1, enemy |-> e1, overlap |-> overlap, hurt |-> hurt, hit |-> hit,
      dead |-> hit /\ Dead(e1),
      now |-> IF overlap THEN currentTime ELSE game.now,
      lastDamageTime |-> IF hurt THEN currentTime ELSE game.lastDamageTime,
      gameOver |-> game.gameOver \/ (hurt /\ p1.health <= 0)]

\* the history of one callback
Note(kind, e, f) ==
  [hist EXCEPT !.log = Append(@, [Ev(kind, e.id, game.index)
                                    EXCEPT !.overlap = f.overlap, !.hurt = f.hurt]),
               !.damage = IF f.hurt THEN Append(@, [time |-> f.now, game |-> hist.resets])
                          ELSE @,
               !.hits = IF f.hit
                        THEN @ \cup {[id |-> e.id, health |-> e.health,
                                      activePowerUp |-> game.activePowerUp]}
                        ELSE @,
               !.nextId = IF f.dead THEN @ + 1 ELSE @]

\* the enemies create makes at the positions findSpawnPosition can return
FreshSlimes ==
  {WithId(createSlime(c[1] * U, c[2] * U), hist.nextId) :
     c \in findSpawnPosition(grid, 2, SpawnDraws)}

FreshSpiders ==
  {WithId(createSpider(c[1] * U, c[2] * U), hist.nextId) :
     c \in findSpawnPosition(grid, 2, SpawnDraws)}

\* the bats a spawn can make
FreshBats == {WithId(createBat(x, y), hist.nextId) : x \in BatDrawsX, y \in BatDrawsY}

\* the roster after the callback of index: the enemy updated, and if it
\* died, spliced out and its replacement pushed
After(roster, f, new) ==
  LET r == [roster EXCEPT ![game.index + 1] = f.enemy]
  IN IF f.dead THEN Append(Splice(r, game.index), new) ELSE r

\* the replacement pushed in a callback: drawn only if the enemy died
Born(f, fresh) == IF f.dead THEN fresh ELSE {f.enemy}

\* the clock time a callback's read can add: the value is used only if the
\* player and the enemy overlap
Reads(e) == IF checkPlayerEnemyCollision(player, e) THEN ReadDeltas ELSE {0}

SlimeCallback ==
  /\ game.pc = "slimes" /\ game.index < Len(slimes)
  /\ \E rnd \in {0, 39} :
       LET slime == updateSlimeAI(slimes[game.index + 1], player, grid, rnd)
       IN \E d \in Reads(slime) :
          LET f == Fight(slime, 5, d)
          IN \E new \in Born(f, FreshSlimes) :
             LET sl == After(slimes, f, new)
             IN /\ slimes' = sl
                /\ player' = f.player
                /\ game' = [At3(Continue("slimes", "bats", sl, bats, spiders))
                             EXCEPT !.now = f.now, !.lastDamageTime = f.lastDamageTime,
                                    !.gameOver = f.gameOver]
                /\ hist' = Note("slime", slime, f)
  /\ UNCHANGED <<gridVars, bats, spiders, ticks>>

SpiderCallback ==
  /\ game.pc = "spiders" /\ game.index < Len(spiders)
  /\ \E rnd \in {0, 29} :
       LET spider == updateSpiderAI(spiders[game.index + 1], player, grid, rnd)
       IN \E d \in Reads(spider) :
          LET f == Fight(spider, 4, d)
          IN \E new \in Born(f, FreshSpiders) :
             LET sp == After(spiders, f, new)
             IN /\ spiders' = sp
                /\ player' = f.player
                /\ game' = [At3(Continue("spiders", "end", slimes, bats, sp))
                             EXCEPT !.now = f.now, !.lastDamageTime = f.lastDamageTime,
                                    !.gameOver = f.gameOver]
                /\ hist' = Note("spider", spider, f)
  /\ UNCHANGED <<gridVars, slimes, bats, ticks>>

\* what a dying bat can leave, by the branch its roll selects: a power-up,
\* a health pickup if the player p is below full health, or nothing
BatDrops(p) ==
  LET spots == findSpawnPosition(grid, 2, SpawnDraws)
  IN {[powerUps |-> Append(game.powerUps, [x |-> c[1] * U, y |-> c[2] * U, type |-> t]),
       healthPickups |-> game.healthPickups] : c \in spots, t \in PowerUpType}
     \cup {[powerUps |-> game.powerUps,
            healthPickups |-> IF p.health < 100
                              THEN Append(game.healthPickups, [x |-> c[1] * U, y |-> c[2] * U])
                              ELSE game.healthPickups] : c \in spots}
     \cup {[powerUps |-> game.powerUps, healthPickups |-> game.healthPickups]}

BatCallback ==
  /\ game.pc = "bats" /\ game.index < Len(bats)
  /\ LET bat == updateBatAI(bats[game.index + 1], player, grid)
     IN \E d \in Reads(bat) :
        LET f == Fight(bat, 3, d)
        IN \E new \in Born(f, FreshBats) :
           \E drop \in (IF f.dead THEN BatDrops(f.player) ELSE {game}) :
             LET bt == After(bats, f, new)
             IN /\ bats' = bt
                /\ player' = f.player
                /\ game' = [At3(Continue("bats", "spiders", slimes, bt, spiders))
                             EXCEPT !.now = f.now, !.lastDamageTime = f.lastDamageTime,
                                    !.gameOver = f.gameOver,
                                    !.powerUps = drop.powerUps,
                                    !.healthPickups = drop.healthPickups]
                /\ hist' = Note("bat", bat, f)
  /\ UNCHANGED <<gridVars, slimes, spiders, ticks>>

\* the test of both pickup filters
Collects(p, pickup) ==
  Abs(p.x - pickup.x) < p.width * U /\ Abs(p.y - pickup.y) < p.height * U

\* the health after the filter callbacks of pickups i .. Len
RECURSIVE HealFrom(_, _, _)
HealFrom(p, pickups, i) ==
  IF i > Len(pickups) THEN p
  ELSE IF Collects(p, pickups[i])
       THEN HealFrom([p EXCEPT !.health = Min(100, @ + 25)], pickups, i + 1)
       ELSE HealFrom(p, pickups, i + 1)

\* the difficulty spawn is due: gameTime and lastSpawnTime are in ticks of 1/30 s
SpawnDue ==
  LET spawnInterval == IF 20 - game.gameTime \div 900 < 10 THEN 10
                       ELSE 20 - game.gameTime \div 900
  IN game.gameTime - game.lastSpawnTime > spawnInterval * 30

\* the power-up React holds after the filter callbacks of power-ups i .. Len
RECURSIVE PowerFrom(_, _, _)
PowerFrom(state, powerUps, i) ==
  IF i > Len(powerUps) THEN state
  ELSE IF Collects(player, powerUps[i])
       THEN PowerFrom(powerUps[i].type, powerUps, i + 1)
       ELSE PowerFrom(state, powerUps, i + 1)

\* mutant: the difficulty spawn does not look at the rosters' lengths
SpawnsUncapped ==
  {[slimes |-> Append(slimes, e), bats |-> bats, spiders |-> spiders] : e \in FreshSlimes}
    \cup {[slimes |-> slimes, bats |-> Append(bats, e), spiders |-> spiders] : e \in FreshBats}
    \cup {[slimes |-> slimes, bats |-> bats, spiders |-> Append(spiders, e)] :
            e \in FreshSpiders}

\* the rosters the difficulty spawn can leave
Spawns ==
  {[slimes |-> IF Len(slimes) < 6 THEN Append(slimes, e) ELSE slimes,
    bats |-> bats, spiders |-> spiders] : e \in FreshSlimes}
    \cup {[slimes |-> slimes,
           bats |-> IF Len(bats) < 4 THEN Append(bats, e) ELSE bats,
           spiders |-> spiders] : e \in FreshBats}
    \cup {[slimes |-> slimes, bats |-> bats,
           spiders |-> IF Len(spiders) < 3 THEN Append(spiders, e) ELSE spiders] :
            e \in FreshSpiders}

\* the end of update(): the pickups, then the difficulty spawn
TickEnd ==
  /\ game.pc = "end"
  /\ player' = HealFrom(player, game.healthPickups, 1)
  /\ \E r \in (IF SpawnDue THEN Spawns
               ELSE {[slimes |-> slimes, bats |-> bats, spiders |-> spiders]}) :
       slimes' = r.slimes /\ bats' = r.bats /\ spiders' = r.spiders
  /\ game' = [game EXCEPT !.pc = "idle",
                !.powerUps = SelectSeq(@, LAMBDA u : ~Collects(player, u)),
                !.healthPickups = SelectSeq(@, LAMBDA u : ~Collects(player, u)),
                !.powerUpState = PowerFrom(@, game.powerUps, 1),
                !.lastSpawnTime = IF SpawnDue THEN game.gameTime ELSE @]
  /\ hist' = [hist EXCEPT !.nextId = IF SpawnDue THEN @ + 1 ELSE @]
  /\ UNCHANGED <<gridVars, ticks>>

\* the key handler of Escape and p, between two frames
TogglePause ==
  /\ game.pc = "idle" /\ ticks < MaxTicks
  /\ game' = [game EXCEPT !.isPaused = ~@, !.activePowerUp = game.powerUpState]
  /\ UNCHANGED <<gridVars, actorVars, ticks, hist>>

\* the Restart and Play Again buttons, shown while paused or game over
resetGame ==
  /\ game.pc = "idle" /\ (game.isPaused \/ game.gameOver)
  /\ hist.resets < MaxResets /\ ticks < MaxTicks
  /\ grid' = Level /\ pre' = Level
  /\ \E c \in findSpawnPosition(Level, 3, ResetDraws) :
       player' = createPlayer(c[1] * U, c[2] * U)
  /\ \E a \in findSpawnPosition(Level, 2, ResetDraws) :
     \E b \in findSpawnPosition(Level, 2, ResetDraws) :
     \E c \in findSpawnPosition(Level, 2, ResetDraws) :
       slimes' = <<WithId(createSlime(a[1] * U, a[2] * U), hist.nextId),
                   WithId(createSlime(b[1] * U, b[2] * U), hist.nextId + 1),
                   WithId(createSlime(c[1] * U, c[2] * U), hist.nextId + 2)>>
  /\ \E ax \in BatDrawsX : \E bx \in BatDrawsX : \E ay \in BatDrawsY : \E by \in BatDrawsY :
       bats' = <<WithId(createBat(ax, ay), hist.nextId + 3),
                 WithId(createBat(bx, by), hist.nextId + 4)>>
  /\ \E c \in findSpawnPosition(Level, 2, ResetDraws) :
       spiders' = <<WithId(createSpider(c[1] * U, c[2] * U), hist.nextId + 5)>>
  /\ game' = [NewGame(game.now) EXCEPT !.keys = game.keys]
  /\ hist' = [hist EXCEPT !.log = <<>>, !.atStart = {}, !.hits = {},
                          !.nextId = @ + 6, !.resets = @ + 1]
  /\ UNCHANGED <<nsteps, ticks>>

NextTick ==
  \/ TickBegin \/ TickGrid \/ SlimeCallback \/ BatCallback \/ SpiderCallback
  \/ TickEnd \/ TogglePause \/ resetGame

SpecTick == InitTick /\ [][NextTick]_vars

(***************************************************************************)
(* SpecBat: one bat over a floor of Stone, and a player that stands still  *)
(* at a distance around 40.                                                *)
(***************************************************************************)
BatLevel == MkGrid(BatW, BatH, [c \in (0 .. BatW - 1) \X {BatH - 1} |-> Stone])

\* 35, 39.8, 40 and 45 cells to the right of the grid's left edge
BatPlayerXs == {35 * U, (398 * U) \div 10, 40 * U, 45 * U}

InitBat ==
  /\ grid = BatLevel /\ pre = grid /\ nsteps = 0 /\ ticks = 0
  /\ \E x \in BatPlayerXs \cup {0} : \E y \in {0, (BatH - 4) * U} :
       player = createPlayer(x, y)
  /\ \E x \in {0, (BatW - 2) * U} : \E y \in {0, U, (BatH - 4) * U} :
     \E c \in {0, 1, 2, 120} : \E diving \in BOOLEAN :
       bats = <<[createBat(x, y) EXCEPT !.diveCooldown = c, !.isDiving = diving,
                                        !.hoverOffset = 200]>>
  /\ slimes = <<>> /\ spiders = <<>>
  /\ game = <<>>
  /\ hist = [before |-> bats[1]]

BatTick ==
  /\ ticks < MaxBatTicks
  /\ bats' = <<updateBatAI(bats[1], player, grid)>>
  /\ hist' = [before |-> bats[1]]
  /\ ticks' = ticks + 1
  /\ UNCHANGED <<gridVars, player, slimes, spiders, game>>

NextBat == BatTick

SpecBat == InitBat /\ [][NextBat]_vars

(***************************************************************************)
(* Claims about updatePhysics().                                           *)
(***************************************************************************)

\* the kind of a cell: what is left of identity when ids are ignored
Loose(t) == t \in {Dirt, Grass}

\* C1 (as stated): one updatePhysics() call leaves the number of cells of
\* each non-Air tag unchanged.
C1_TagCountsUnchanged ==
  nsteps > 0 => \A t \in ParticleType \ {Air} : Count(grid, t) = Count(pre, t)

\* C1 (amended): one updatePhysics() call leaves the number of cells of each
\* non-Air tag other than Dirt and Grass unchanged and the number of Dirt
\* plus Grass cells unchanged; Grass can only become fewer (each decayed
\* Grass is one more Dirt), so nothing vanishes or duplicates.
C1_Conservation ==
  nsteps > 0 =>
  /\ \A t \in ParticleType \ {Air, Dirt, Grass} : Count(grid, t) = Count(pre, t)
  /\ Count(grid, Dirt) + Count(grid, Grass) = Count(pre, Dirt) + Count(pre, Grass)
  /\ Count(grid, Grass) <= Count(pre, Grass)
  /\ Ids(grid) = Ids(pre)
  /\ \A c \in DOMAIN grid.grid : \A d \in DOMAIN grid.grid :
        (grid.grid[c].id # 0 /\ grid.grid[c].id = grid.grid[d].id) => c = d

\* a call in which a Grass decayed and a Dirt slid diagonally
C1_Witness ==
  /\ nsteps = 1
  /\ Count(grid, Grass) < Count(pre, Grass)
  /\ \E i \in Ids(pre) : PosOfId(pre, i)[1] # PosOfId(grid, i)[1]

\* C5: in the settling scenario the Dirt placed at (x0, 0) is at (x0, k)
\* after k calls for k <= height - 2, and stays at (x0, height - 2) from
\* then on (for the 10x10 grid and x0 = 5: (5,1) after one call, (5,8)
\* after 8).
C5_FallsOneRowPerStep ==
  \A i \in 1 .. ScenW :
     i \in Ids(grid) =>
       /\ PosOfId(grid, i) = <<i - 1, Min(nsteps, ScenH - 2)>>
       /\ grid.grid[PosOfId(grid, i)].type = Dirt

C5_Witness ==
  /\ nsteps = ScenH - 2
  /\ grid.grid[<<5, ScenH - 2>>].id = 6
  /\ grid.grid[<<5, ScenH - 2>>].type = Dirt
  /\ pre.grid[<<5, ScenH - 3>>].id = 6

\* C6: in one updatePhysics() call no particle moves more than once: every
\* particle ends in its row or one row below, at most one column aside,
\* and aside only together with one row down.
C6_NoDoubleMove ==
  nsteps > 0 => \A i \in Ids(pre) :
     LET p == PosOfId(pre, i)
         q == PosOfId(grid, i)
     IN /\ q[2] - p[2] \in {0, 1}
        /\ q[1] - p[1] \in {-1, 0, 1}
        /\ q[1] # p[1] => q[2] = p[2] + 1

\* a column of two stacked Dirt above Air, both one row lower after the call
C6_Witness ==
  /\ nsteps = 1
  /\ \E x \in 0 .. GridW - 1 :
       /\ pre.grid[<<x, 0>>].type = Dirt /\ pre.grid[<<x, 1>>].type = Dirt
       /\ pre.grid[<<x, 2>>].type = Air
       /\ grid.grid[<<x, 1>>].id = pre.grid[<<x, 0>>].id
       /\ grid.grid[<<x, 2>>].id = pre.grid[<<x, 1>>].id
       /\ grid.grid[<<x, 0>>].type = Air

GrassCells(g) == {c \in DOMAIN g.grid : g.grid[c].type = Grass /\ c[2] <= g.height - 2}

\* C7 (as stated): a Grass with Air below is, after the call, Air with Dirt
\* below it; a Grass whose cell below is not Air is left unchanged.
C7_AsStated ==
  nsteps > 0 => \A c \in GrassCells(pre) :
     LET b == <<c[1], c[2] + 1>>
     IN IF pre.grid[b].type = Air
        THEN grid.grid[c].type = Air /\ grid.grid[b].type = Dirt
        ELSE grid.grid[c].type = Grass /\ grid.grid[c].id = pre.grid[c].id

\* C7 (amended): what decides is the cell below at the time the Grass is
\* scanned.  A Grass at (x,y), y <= height-2, either (a) has become Dirt at
\* (x,y+1), and then (x,y) holds Air or a particle that fell into it from
\* row y-1 later in the call, or (b) is still the same Grass at (x,y) with
\* a non-Air cell below.  With Air below before the call and no Dirt at
\* (x-1,y) it is (a); with a non-Air cell below that is not Dirt or Grass,
\* or is in the bottom row, it is (b).
C7_GrassDecay ==
  nsteps > 0 => \A c \in GrassCells(pre) :
     LET b == <<c[1], c[2] + 1>>
         i == pre.grid[c].id
         fell == /\ grid.grid[b].id = i /\ grid.grid[b].type = Dirt
                 /\ grid.grid[b].updated
                 /\ \/ grid.grid[c].type = Air
                    \/ PosOfId(pre, grid.grid[c].id)[2] = c[2] - 1
         stayed == /\ grid.grid[c].id = i /\ grid.grid[c].type = Grass
                   /\ grid.grid[b].type # Air
     IN /\ fell \/ stayed
        /\ (pre.grid[b].type = Air /\ get(pre, c[1] - 1, c[2]).type # Dirt) => fell
        /\ (pre.grid[b].type # Air /\ (~Loose(pre.grid[b].type) \/ b[2] = pre.height - 1))
              => stayed

\* a Grass decayed and fell, and a particle of the row above took its cell
C7_Witness ==
  /\ nsteps = 1
  /\ \E c \in GrassCells(pre) :
       /\ pre.grid[<<c[1], c[2] + 1>>].type = Air
       /\ grid.grid[<<c[1], c[2] + 1>>].id = pre.grid[c].id
       /\ grid.grid[<<c[1], c[2] + 1>>].type = Dirt
       /\ grid.grid[c].type # Air

(***************************************************************************)
(* Claims about the integration.                                           *)
(***************************************************************************)
Walkers == {player} \cup {slimes[i] : i \in DOMAIN slimes}
                    \cup {spiders[i] : i \in DOMAIN spiders}

At(e, pos) == [e EXCEPT !.x = pos[1], !.y = pos[2]]
FreeAt(e, pos) == ~checkCollision(At(e, pos), grid, 0, 0)

\* no cell of the region the floored box sweeps from pos1 to pos2 is solid
SweepFree(e, pos1, pos2) ==
  LET x1 == Floor(pos1[1], U)
      x2 == Floor(pos2[1], U)
      y1 == Floor(pos1[2], U)
      y2 == Floor(pos2[2], U)
  IN \A cx \in Min(x1, x2) .. (IF x1 > x2 THEN x1 ELSE x2) + e.width - 1 :
       \A cy \in Min(y1, y2) .. (IF y1 > y2 THEN y1 ELSE y2) + e.height - 1 :
          ~OutOfRange(grid, cx, cy) /\ get(grid, cx, cy).type \in Passable

\* C2: for the player, a slime and a spider in Grounded mode, on a grid that
\* does not change: an integration that starts with the floored box free of
\* solid cells ends with it free, every position a sub-step committed was
\* free, and no solid cell lies in the region swept between two
\* consecutive positions (nothing is passed through).
C2_TunnelFree ==
  \A e \in Walkers :
     (e.trail # <<>> /\ FreeAt(e, e.trail[1])) =>
        /\ e.trail[Len(e.trail)] = <<e.x, e.y>>
        /\ \A k \in 1 .. Len(e.trail) : FreeAt(e, e.trail[k])
        /\ \A k \in 1 .. Len(e.trail) - 1 : SweepFree(e, e.trail[k], e.trail[k + 1])

\* an actor that fell four sub-steps or more and was stopped by the Stone
\* segment right under its box
C2_Witness ==
  \E e \in Walkers :
     /\ Len(e.trail) >= 5 /\ e.onGround /\ FreeAt(e, e.trail[1])
     /\ e.trail[1][2] < e.y
     /\ \E cx \in Floor(e.x, U) .. Floor(e.x, U) + e.width - 1 :
          get(grid, cx, Floor(e.y, U) + e.height).type = Stone

(***************************************************************************)
(* Claims about the tick.                                                  *)
(***************************************************************************)
EnemyKinds == {"slime", "bat", "spider"}
Rank(kind) == CASE kind = "slime" -> 1 [] kind = "bat" -> 2 [] kind = "spider" -> 3
                [] OTHER -> 0
Enemies == {slimes[i] : i \in DOMAIN slimes} \cup {bats[i] : i \in DOMAIN bats}
             \cup {spiders[i] : i \in DOMAIN spiders}
\* how often the AI of the enemy id ran in the current tick
Runs(id) == Cardinality({k \in DOMAIN hist.log :
                           hist.log[k].kind \in EnemyKinds /\ hist.log[k].id = id})

\* C3: in every tick the first thing done is the player's integration, the
\* second is the one updatePhysics() of the tick, and everything after it is
\* an enemy update; the enemy updates come roster by roster (slimes, bats,
\* spiders) and in increasing index within a roster; no enemy update runs
\* before the tick's updatePhysics().
C3_TickOrder ==
  LET log == hist.log
  IN /\ Len(log) >= 1 => log[1].kind = "player"
     /\ Len(log) >= 2 => log[2].kind = "step"
     /\ \A k \in 3 .. Len(log) : log[k].kind \in EnemyKinds
     /\ \A j \in 3 .. Len(log) : \A k \in j + 1 .. Len(log) :
          /\ Rank(log[j].kind) <= Rank(log[k].kind)
          /\ log[j].kind = log[k].kind => log[j].index < log[k].index
     /\ game.pc \in {"slimes", "bats", "spiders", "end"} => Len(log) >= 2
     /\ game.pc = "grid" => Len(log) = 1

\* the second tick has run the player, the step and an update of enemies of
\* all three rosters
C3_Witness ==
  /\ game.pc = "end" /\ ticks = 2 /\ Len(hist.log) = 8
  /\ \A kind \in EnemyKinds : \E k \in DOMAIN hist.log : hist.log[k].kind = kind
  /\ hist.log[2].kind = "step" /\ pre # grid

\* C4, as stated: when the enemy updates of a tick are over, every enemy
\* that was in a roster when the tick began and is still in it has had its
\* AI update run exactly once in the tick, and no enemy has had it run twice.
C4_EveryEnemyOnce ==
  game.pc = "end" =>
    /\ \A id \in hist.atStart \cap EnemyIds : Runs(id) = 1
    /\ \A id \in EnemyIds : Runs(id) <= 1

\* C8: within one game (between two resetGame calls) any two applications
\* of contact damage, whatever the archetypes, are more than 500 ms of the
\* clock apart, and at most one callback of a tick applies contact damage;
\* each application takes the archetype's damage from the player.
C8_SharedCooldown ==
  /\ \A i \in DOMAIN hist.damage : \A j \in DOMAIN hist.damage :
       (i < j /\ hist.damage[i].game = hist.damage[j].game) =>
          hist.damage[j].time - hist.damage[i].time > 500
  /\ Cardinality({k \in DOMAIN hist.log : hist.log[k].hurt}) <= 1

\* C8, as stated: any two applications are more than 500 ms apart
C8_AsStated ==
  \A i \in DOMAIN hist.damage : \A j \in DOMAIN hist.damage :
     i < j => hist.damage[j].time - hist.damage[i].time > 500

\* the player overlapped two hostiles of different archetypes in one tick
\* and was hurt by one of them only, after having been hurt in the same
\* game before
C8_Witness ==
  /\ \E j \in DOMAIN hist.log : \E k \in DOMAIN hist.log :
       /\ hist.log[j].overlap /\ hist.log[k].overlap
       /\ hist.log[j].kind # hist.log[k].kind
       /\ hist.log[j].hurt /\ ~hist.log[k].hurt
  /\ Len(hist.damage) = 2
  /\ hist.damage[1].game = hist.damage[2].game

\* C9: an enemy hit by the sword in the current tick, with health H before
\* the hit and D = 4 under the damage power-up and 2 otherwise, is in its
\* roster if and only if H - D > 0, and then its health is H - D; between
\* two ticks no roster holds an enemy with health <= 0.
C9_MeleeArithmetic ==
  /\ \A h \in hist.hits :
       LET D == IF h.activePowerUp = "damage" THEN 4 ELSE 2
       IN /\ h.id \in EnemyIds <=> h.health - D > 0
          /\ \A e \in Enemies : e.id = h.id => e.health = h.health - D
  /\ game.pc = "idle" => \A e \in Enemies : e.health > 0

\* in one tick a hit enemy survived and another was removed
C9_Witness ==
  /\ game.pc = "idle"
  /\ \E h \in hist.hits : h.id \in EnemyIds /\ h.health = 4
  /\ \E h \in hist.hits : h.id \notin EnemyIds /\ h.health = 2

(***************************************************************************)
(* Claims about the bat.                                                   *)
(***************************************************************************)
\* the bat before the last updateBatAI was Hovering and, after the
\* decrement, its dive-cooldown was 0 and it was nearer than 40 to the player
DiveDue ==
  LET b == hist.before
      dx == player.x - b.x
      dy == player.y - b.y
  IN /\ ~b.isDiving
     /\ b.diveCooldown <= 1
     /\ Abs(dx) < 40 * U /\ Abs(dy) < 40 * U
     /\ dx * dx < 1600 * U * U - dy * dy

\* the cell updateBatAI probes under the bat as it was before the call is
\* in the grid and not Air
ProbeSolid ==
  LET b == hist.before
      checkY == Floor(b.y, U) + b.height + 1
  IN /\ checkY < grid.height
     /\ ~OutOfRange(grid, Floor(b.x, U), checkY)
     /\ TypeAt(grid, Floor(b.x, U), checkY) # Air

\* C10, as stated: a hovering bat with cooldown 0 and distance < 40 is
\* Diving after the call; any other hovering bat stays Hovering.
C10_AsStated ==
  (ticks > 0 /\ ~hist.before.isDiving) =>
     (bats[1].isDiving <=> DiveDue)

\* C10: a hovering bat with cooldown 0 (after the decrement) and distance
\* < 40 starts a dive in the call, which sets its cooldown to 120; after the
\* call it is Diving unless the cell probed under it is solid, and then the
\* same call has put it back to Hovering with vy = -4 (damped to -3.8).  A
\* hovering bat with another cooldown or a distance >= 40 stays Hovering.
C10_DiveStart ==
  (ticks > 0 /\ ~hist.before.isDiving) =>
     /\ DiveDue => /\ bats[1].diveCooldown = 120
                   /\ bats[1].isDiving <=> ~ProbeSolid
                   /\ ProbeSolid => bats[1].vy = MulFrac(-4 * U, 95, 100)
     /\ ~DiveDue => /\ ~bats[1].isDiving
                    /\ bats[1].diveCooldown =
                         IF hist.before.diveCooldown > 0
                         THEN hist.before.diveCooldown - 1 ELSE 0

\* a hovering bat 35 cells from the player, cooldown 0, nothing under it:
\* Diving after the call
C10_Witness ==
  /\ ticks > 0 /\ ~hist.before.isDiving /\ hist.before.diveCooldown = 0
  /\ player.x - hist.before.x = 35 * U /\ player.y = hist.before.y
  /\ ~ProbeSolid /\ bats[1].isDiving

\* the bat before the last updateBatAI was in a dive, or started one in
\* the call
InDive == hist.before.isDiving \/ DiveDue

Region(x, y) ==
  /\ 0 <= x /\ x < grid.width - game.width
  /\ 0 <= y /\ y < grid.height - 10
  /\ \A c \in x .. x + game.width - 1 : TypeAt(grid, c, y) \in {Air, Plant}
  /\ \E c \in x .. x + game.width - 1 : TypeAt(grid, c, y + 1) \notin {Air, Plant}

HasRegion(x) == \E y \in 0 .. grid.height - 11 : Region(x, y)

\* C12: a position a successful probe returns is a region, and the first
\* one of its column; a probe that samples the column of a region succeeds
\* (every probe that failed sampled a column without one).
C12_SpawnValid ==
  /\ (game.pc = "done" /\ game.found) =>
        /\ Region(game.pos[1], game.pos[2])
        /\ \A z \in 0 .. game.pos[2] - 1 : ~Region(game.pos[1], z)
        /\ game.pos[1] = game.x
  /\ (game.attempt > 0 /\ ~game.found) => ~HasRegion(game.x)

\* after a probe that failed, a probe returns row 1 of a column whose row
\* 0 is no region
C12_Witness ==
  /\ game.pc = "done" /\ game.found /\ game.attempt > 0
  /\ game.pos[2] = 1 /\ ~Region(game.pos[1], 0)

\* C13: the call ends with a position in every case; without a successful
\* probe it is the fallback, after exactly Attempts (100) probes, and this
\* is what a grid without any region gets.
C13_Fallback ==
  /\ game.attempt <= 100
  /\ (game.pc = "done" /\ ~game.found) =>
        /\ game.pos = <<grid.width \div 2 - game.width \div 2, 10>>
        /\ game.attempt = 100
  /\ (game.pc = "done" /\ \A x \in 0 .. grid.width - game.width - 1 : ~HasRegion(x)) =>
        ~game.found

\* the fallback is returned for a grid without a region, and the box there
\* has nothing under it
C13_Witness ==
  /\ game.pc = "done" /\ ~game.found
  /\ \A x \in 0 .. grid.width - game.width - 1 : ~HasRegion(x)
  /\ \A c \in game.pos[1] .. game.pos[1] + game.width - 1 :
        TypeAt(grid, c, game.pos[2] + 1) = Air

(***************************************************************************)
(* Claims about the grid's accessors.                                      *)
(***************************************************************************)
\* (x, y) is no cell of the grid
Outside(x, y) == ~(0 <= x /\ x < pre.width /\ 0 <= y /\ y < pre.height)

\* C14: at a coordinate outside the grid get returns no cell, set changes
\* no cell, and swap with an endpoint outside changes no cell.
C14_OutOfRange ==
  nsteps > 0 =>
    /\ (hist.op = "get" /\ Outside(hist.x1, hist.y1)) => (hist.got = NoCell /\ grid = pre)
    /\ (hist.op = "set" /\ Outside(hist.x1, hist.y1)) => grid = pre
    /\ (hist.op = "swap" /\ (Outside(hist.x1, hist.y1) \/ Outside(hist.x2, hist.y2))) =>
          grid = pre

\* a swap of a Dirt cell with a position under the grid has left the Dirt
\* where it was
C14_Witness ==
  /\ nsteps > 0 /\ hist.op = "swap"
  /\ ~Outside(hist.x1, hist.y1) /\ hist.x2 = hist.x1 /\ hist.y2 = pre.height
  /\ TypeAt(pre, hist.x1, hist.y1) = Dirt /\ TypeAt(grid, hist.x1, hist.y1) = Dirt

(***************************************************************************)
(* Claims about checkCollision.                                            *)
(***************************************************************************)
MarkerTags == {PlayerTag, SlimeTag, BatTag, SwordTag}

\* the cells of the box of slimes[1] moved by the deltas of the last call
BoxCells ==
  LET e == slimes[1]
      newX == (e.x + hist.dx) \div U
      newY == (e.y + hist.dy) \div U
  IN (newX .. newX + e.width - 1) \X (newY .. newY + e.height - 1)

\* C15, as stated: checkCollision is true if and only if the box holds a
\* position outside the grid or a cell that is not Air, not Plant and not
\* an actor marker (Player, Slime, Bat, weapon).
C15_AsStated ==
  nsteps > 0 =>
    (hist.hit <=> \E c \in BoxCells :
                     \/ c \notin DOMAIN grid.grid
                     \/ grid.grid[c].type \notin ({Air, Plant} \cup MarkerTags))

(***************************************************************************)
(* Claims about the player among moving cells.                             *)
(***************************************************************************)
\* C16, as stated: between full ticks the player's box holds no solid
\* cell (and no position outside the grid).
C16_AsStated == ~checkCollision(player, grid, 0, 0)

(***************************************************************************)
(* Claims about generateLevel.                                             *)
(***************************************************************************)
\* C17, as stated: every write of the platform pass and of the pillar pass
\* lands on a cell of the grid that holds Air.
C17_AsStated == hist.over = {}

(***************************************************************************)
(* More claims about updatePhysics().                                      *)
(***************************************************************************)
BottomRow(g) == {c \in DOMAIN g.grid : c[2] = g.height - 1}

\* C18, as stated: every cell of the bottom row holds the same material
\* after the call as before.
C18_AsStated ==
  nsteps > 0 => \A c \in BottomRow(pre) : grid.grid[c].type = pre.grid[c].type

\* C18: no cell of the bottom row is scanned, so nothing in it moves or is
\* converted: a cell of the bottom row that is not Air holds the same
\* particle after the call.  An Air cell of the bottom row can receive the
\* Dirt (or the Grass, as Dirt) of the row above, and holds Air or Dirt
\* afterwards.
C18_BottomRow ==
  nsteps > 0 => \A c \in BottomRow(pre) :
     /\ pre.grid[c].type # Air =>
           (grid.grid[c].type = pre.grid[c].type /\ grid.grid[c].id = pre.grid[c].id)
     /\ pre.grid[c].type = Air => grid.grid[c].type \in {Air, Dirt}

\* a call after which a Dirt has fallen into an Air cell of the bottom row
\* while a Grass of the bottom row is what it was
C18_Witness ==
  /\ nsteps > 0
  /\ \E c \in BottomRow(pre) : pre.grid[c].type = Air /\ grid.grid[c].type = Dirt
  /\ \E c \in BottomRow(pre) : pre.grid[c].type = Grass /\ grid.grid[c].type = Grass

InertTags == ParticleType \ {Air, Dirt, Grass}

\* C19: a cell that holds Stone, Plant or an actor marker holds the same
\* particle after the call, no other cell holds such a tag afterwards, and
\* every cell whose content changed held Air, Dirt or Grass.
C19_InertTags ==
  nsteps > 0 => \A c \in DOMAIN pre.grid :
     /\ pre.grid[c].type \in InertTags =>
           (grid.grid[c].type = pre.grid[c].type /\ grid.grid[c].id = pre.grid[c].id)
     /\ grid.grid[c].type \in InertTags => pre.grid[c].type = grid.grid[c].type
     /\ grid.grid[c].type # pre.grid[c].type => pre.grid[c].type \in {Air, Dirt, Grass}

\* a Dirt on top of an actor marker has slid off it, and the marker is
\* where it was
C19_Witness ==
  /\ nsteps > 0
  /\ \E c \in DOMAIN pre.grid :
       /\ c[2] > 0
       /\ pre.grid[c].type \in {PlayerTag, SlimeTag, SwordTag, BatTag}
       /\ grid.grid[c].type = pre.grid[c].type
       /\ pre.grid[<<c[1], c[2] - 1>>].type = Dirt
       /\ grid.grid[<<c[1], c[2] - 1>>].type = Air

\* the cell (x, y) cannot become Air in a call: it is outside the grid, or
\* holds an inert tag, or lies in the bottom row and is not Air
Fixed(g, x, y) ==
  \/ OutOfRange(g, x, y)
  \/ g.grid[<<x, y>>].type \in InertTags
  \/ (y = g.height - 1 /\ g.grid[<<x, y>>].type # Air)

\* C20, as stated: the only loose particle of a grid, a Dirt whose cell
\* below is not Air, is at the same position after the call.
C20_AsStated ==
  (nsteps > 0 /\ Count(pre, Dirt) = 1 /\ Count(pre, Grass) = 0) =>
     \A c \in DOMAIN pre.grid :
        (pre.grid[c].type = Dirt /\ c[2] < pre.height - 1
           /\ pre.grid[<<c[1], c[2] + 1>>].type # Air) =>
        grid.grid[c].id = pre.grid[c].id

\* C20: a Dirt halts when none of the three cells under it (straight, left
\* and right) can take it: with each of them outside the grid, inert, or a
\* non-Air cell of the bottom row, the Dirt is at the same position after
\* the call (and the three cells are as they were, so it stays from then on).
C20_HaltsWhenBlocked ==
  nsteps > 0 => \A c \in DOMAIN pre.grid :
     (/\ pre.grid[c].type = Dirt
      /\ \A dx \in {-1, 0, 1} : Fixed(pre, c[1] + dx, c[2] + 1)) =>
        /\ grid.grid[c].id = pre.grid[c].id /\ grid.grid[c].type = Dirt
        /\ \A dx \in {-1, 0, 1} : Fixed(grid, c[1] + dx, c[2] + 1)

\* a Dirt above the bottom row, on Stone and next to the wall, with Stone
\* under its open side, has stayed
C20_Witness ==
  /\ nsteps > 0
  /\ \E c \in DOMAIN pre.grid :
       /\ c[2] < pre.height - 1 /\ pre.grid[c].type = Dirt
       /\ \A dx \in {-1, 0, 1} : Fixed(pre, c[1] + dx, c[2] + 1)
       /\ pre.grid[<<c[1], c[2] + 1>>].type = Stone
       /\ grid.grid[c].id = pre.grid[c].id

(***************************************************************************)
(* SpecSlime: one slime created in the air over a floor of Stone, and a    *)
(* player that stands still at a distance around 30.  hist is the slime    *)
(* the last call of updateSlimeAI was given.                               *)
(***************************************************************************)
SlimeLevel == MkGrid(SlimeW, SlimeH, [c \in (0 .. SlimeW - 1) \X {SlimeH - 1} |-> Stone])

SlimeXs == {0, U, 30 * U}
SlimePlayerXs == {0, 29 * U, 30 * U, 31 * U}
SlimeDraws == {0, 39}

InitSlime ==
  /\ grid = SlimeLevel /\ pre = grid /\ nsteps = 0 /\ ticks = 0
  /\ \E x \in SlimePlayerXs : player = createPlayer(x, 0)
  /\ \E x \in SlimeXs : slimes = <<createSlime(x, 0)>>
  /\ bats = <<>> /\ spiders = <<>>
  /\ game = <<>>
  /\ hist = [before |-> slimes[1]]

SlimeTick ==
  /\ ticks < MaxSlimeTicks
  /\ \E rnd \in SlimeDraws : slimes' = <<updateSlimeAI(slimes[1], player, grid, rnd)>>
  /\ hist' = [before |-> slimes[1]]
  /\ ticks' = ticks + 1
  /\ UNCHANGED <<gridVars, player, bats, spiders, game>>

NextSlime == SlimeTick

SpecSlime == InitSlime /\ [][NextSlime]_vars

(***************************************************************************)
(* C21: on a tick where the slime is grounded, its jump cooldown is zero   *)
(* after the decrement and the player is less than 30 cells away in x,     *)
(* updateSlimeAI launches it: what the call returns is gravity, collision  *)
(* and friction applied to the slime with vy = -4, vx = 2 or -2 toward the *)
(* player, and the cooldown is an integer in [60, 100).  On every other    *)
(* tick what the call returns is gravity, collision and friction applied   *)
(* to the slime as it was, with the cooldown one lower or still zero.      *)
(***************************************************************************)
Launches(s, p) ==
  s.onGround /\ s.jumpCooldown <= 1 /\ Abs(p.x - s.x) < 30 * U

Toward(s, p) ==
  {v \in {2 * VU, -2 * VU} : (p.x > s.x => v > 0) /\ (p.x < s.x => v < 0)}

C21_Launch ==
  ticks > 0 =>
    LET b == hist.before
        a == slimes[1]
    IN IF Launches(b, player)
       THEN /\ a.jumpCooldown \in 60 .. 99
            /\ \E v \in Toward(b, player) :
                 a = Integrate(applyGravity([b EXCEPT !.vy = -4 * U, !.vx = v,
                                                      !.jumpCooldown = a.jumpCooldown],
                                            U \div 2), grid, 9, 10)
       ELSE /\ a.jumpCooldown = IF b.jumpCooldown > 0 THEN b.jumpCooldown - 1 ELSE 0
            /\ a = Integrate(applyGravity([b EXCEPT !.jumpCooldown = a.jumpCooldown],
                                          U \div 2), grid, 9, 10)

\* a slime whose cooldown ran down from 1 is launched to the right
C21_Witness ==
  /\ ticks > 0 /\ Launches(hist.before, player)
  /\ hist.before.jumpCooldown = 1
  /\ slimes[1].vx > 0 /\ slimes[1].vy < 0

\* a grounded slime with no cooldown and the player 30 or more away stays
C21_WitnessFar ==
  /\ ticks > 0 /\ hist.before.onGround /\ hist.before.jumpCooldown = 0
  /\ Abs(player.x - hist.before.x) >= 30 * U
  /\ slimes[1].vx = 0

(***************************************************************************)
(* SpecSpider: one spider created in the air over a floor of Stone with,   *)
(* or without, a pillar of Stone, and a player that stands still.  hist    *)
(* is the spider the last call of updateSpiderAI was given.                *)
(***************************************************************************)
\* a floor in the bottom row; the pillar, if any, fills column 3 from row
\* SpiderH - 5 down to the floor; the ledge, if any, is columns 0 and 1 of
\* row SpiderH - 5
SpiderLevels ==
  {MkGrid(SpiderW, SpiderH,
          [c \in ((0 .. SpiderW - 1) \X {SpiderH - 1})
                 \cup (IF more = "pillar" THEN {3} \X (SpiderH - 5 .. SpiderH - 2) ELSE {})
                 \cup (IF more = "ledge" THEN {0, 1} \X {SpiderH - 5} ELSE {}) |-> Stone]) :
     more \in {"none", "pillar", "ledge"}}

SpiderXs == {0, U, 4 * U}
SpiderPlayerSpots == {<<0, 0>>, <<0, 3 * U>>, <<0, (SpiderH - 4) * U>>}
SpiderDraws == {0, 29}

InitSpider ==
  /\ grid \in SpiderLevels /\ pre = grid /\ nsteps = 0 /\ ticks = 0
  /\ \E c \in SpiderPlayerSpots : player = createPlayer(c[1], c[2])
  /\ \E x \in SpiderXs : spiders = <<createSpider(x, 0)>>
  /\ slimes = <<>> /\ bats = <<>>
  /\ game = <<>>
  /\ hist = [before |-> spiders[1]]

SpiderTick ==
  /\ ticks < MaxSpiderTicks
  /\ \E rnd \in SpiderDraws : spiders' = <<updateSpiderAI(spiders[1], player, grid, rnd)>>
  /\ hist' = [before |-> spiders[1]]
  /\ ticks' = ticks + 1
  /\ UNCHANGED <<gridVars, player, slimes, bats, game>>

NextSpider == SpiderTick

SpecSpider == InitSpider /\ [][NextSpider]_vars

(***************************************************************************)
(* C22: on a tick where the spider is adjacent to a wall (checkCollision   *)
(* one cell to the left or to the right) and the player's y is more than 2 *)
(* away from its y, updateSpiderAI makes it climb: vx is 0, x is           *)
(* unchanged, vy is exactly 1 or -1 (no gravity), y moved by 1 toward the  *)
(* player's y and was then clamped to [0, height - footprint height], and  *)
(* the integration did not run (nothing else of the spider changed).  On   *)
(* every other tick it is not climbing and what the call returns is the    *)
(* integration of the spider, launched or not, after gravity.              *)
(***************************************************************************)
Climbs(s, p, g) ==
  /\ checkCollision(s, g, -U, 0) \/ checkCollision(s, g, U, 0)
  /\ Abs(p.y - s.y) > 2 * U

Clamp(v, lo, hi) == IF v < lo THEN lo ELSE IF v > hi THEN hi ELSE v

C22_Climbing ==
  ticks > 0 =>
    LET b == hist.before
        a == spiders[1]
        d == IF player.y > b.y THEN U ELSE -U
        cool == IF b.climbCooldown > 0 THEN b.climbCooldown - 1 ELSE 0
    IN IF Climbs(b, player, grid)
       THEN a = [b EXCEPT !.isClimbing = TRUE, !.vx = 0, !.vy = d,
                          !.y = Clamp(b.y + d, 0, (grid.height - b.height) * U),
                          !.climbCooldown = cool, !.trail = <<>>]
       ELSE /\ ~a.isClimbing
            /\ \E vx \in {b.vx, (5 * VU) \div 2, -((5 * VU) \div 2)} :
               \E vy \in {b.vy, -(7 * U) \div 2} :
                 a = Integrate(applyGravity([b EXCEPT !.isClimbing = FALSE, !.vx = vx,
                                                      !.vy = vy,
                                                      !.climbCooldown = a.climbCooldown],
                                            U \div 2), grid, 9, 10)

\* a spider on the floor beside the pillar climbs one cell up, through
\* no integration
C22_Witness ==
  /\ ticks > 0 /\ Climbs(hist.before, player, grid)
  /\ hist.before.onGround /\ ~hist.before.isClimbing
  /\ spiders[1].isClimbing
  /\ spiders[1].y = hist.before.y - U
  /\ spiders[1].x = 4 * U

(***************************************************************************)
(* C23: after every updateBatAI, hovering or diving, the bat's x is in     *)
(* [0, grid width - bat width] and its y is at least 0.                    *)
(***************************************************************************)
C23_BatInBounds ==
  ticks > 0 =>
    /\ bats[1].x >= 0
    /\ bats[1].x <= (grid.width - bats[1].width) * U
    /\ bats[1].y >= 0

\* a bat in the top-left corner cell was sent further left and up by a dive
C23_Witness ==
  /\ ticks > 0
  /\ hist.before.x = 0 /\ hist.before.y = U
  /\ bats[1].vx < 0 /\ bats[1].vy < -2 * U
  /\ bats[1].x = 0 /\ bats[1].y = 0

(***************************************************************************)
(* SpecStep: one walking actor (the player, a slime or a spider) on a grid *)
(* that does not change, started collision-free with any velocity, as in   *)
(* SpecKin.  hist.start is the actor the last integration started from,    *)
(* gravity applied; hist.ran tells whether the last call integrated.       *)
(***************************************************************************)
InitStep ==
  /\ grid \in KinGrids
  /\ pre = grid /\ nsteps = 0 /\ ticks = 0
  /\ game = <<>>
  /\ bats = <<>>
  /\ \E vx \in VxSet : \E vy \in VySet :
       \/ /\ \E c \in StartSpots(3, 3) : player = Moving(createPlayer(c[1], c[2]), vx, vy)
          /\ slimes = <<>> /\ spiders = <<>>
       \/ /\ \E c \in StartSpots(3, 3) : player = createPlayer(c[1], c[2])
          /\ \E c \in StartSpots(2, 2) : slimes = <<Moving(createSlime(c[1], c[2]), vx, vy)>>
          /\ spiders = <<>>
       \/ /\ \E c \in StartSpots(3, 3) : player = createPlayer(c[1], c[2])
          /\ \E c \in StartSpots(2, 2) : spiders = <<Moving(createSpider(c[1], c[2]), vx, vy)>>
          /\ slimes = <<>>
  /\ ~checkCollision(player, grid, 0, 0)
  /\ \A i \in DOMAIN slimes : ~checkCollision(slimes[i], grid, 0, 0)
  /\ \A i \in DOMAIN spiders : ~checkCollision(spiders[i], grid, 0, 0)
  /\ hist = [start |-> player, ran |-> FALSE]

StepPlayer ==
  /\ slimes = <<>> /\ spiders = <<>> /\ ticks < MaxStepTicks
  /\ \E keys \in KinKeys :
       /\ player' = updatePlayerPhysics(ApplyIntents(player, keys, "none"), grid)
       /\ hist' = [start |-> applyGravity(ApplyIntents(player, keys, "none"), U \div 2),
                   ran |-> TRUE]
  /\ ticks' = ticks + 1
  /\ UNCHANGED <<gridVars, slimes, bats, spiders, game>>

StepSlime ==
  /\ slimes # <<>> /\ ticks < MaxStepTicks
  /\ \E rnd \in {0, 39} :
       /\ slimes' = <<updateSlimeAI(slimes[1], player, grid, rnd)>>
       /\ hist' = [start |-> SlimeStart(slimes[1], player, rnd), ran |-> TRUE]
  /\ ticks' = ticks + 1
  /\ UNCHANGED <<gridVars, player, bats, spiders, game>>

StepSpider ==
  /\ spiders # <<>> /\ ticks < MaxStepTicks
  /\ \E rnd \in {0, 29} :
       /\ spiders' = <<updateSpiderAI(spiders[1], player, grid, rnd)>>
       /\ hist' = IF Climbs(spiders[1], player, grid)
                  THEN [start |-> spiders[1], ran |-> FALSE]
                  ELSE [start |-> SpiderStart([spiders[1] EXCEPT !.climbCooldown =
                                                  IF @ > 0 THEN @ - 1 ELSE @],
                                              player, rnd),
                        ran |-> TRUE]
  /\ ticks' = ticks + 1
  /\ UNCHANGED <<gridVars, player, slimes, bats, game>>

NextStep == StepPlayer \/ StepSlime \/ StepSpider

SpecStep == InitStep /\ [][NextStep]_vars

\* the actor of SpecStep
Walker ==
  IF slimes # <<>> THEN slimes[1] ELSE IF spiders # <<>> THEN spiders[1] ELSE player

\* the sub-steps the vertical loop committed: the positions of the trail
\* after the first that are in the start's column
CommittedY(e) == Cardinality({k \in 2 .. Len(e.trail) : e.trail[k][1] = e.trail[1][1]})

(***************************************************************************)
(* C24: the vertical integration of the player, a slime and a spider that  *)
(* does not climb splits vy into ceil(|vy|) sub-steps of vy / steps each.  *)
(* Each committed sub-step was tested free before it was committed; if     *)
(* fewer than steps were committed, the next one collided, vy is 0 and the *)
(* actor is grounded if vy was downward, while after an upward collision   *)
(* grounded is what it was (false if a sub-step was committed before);     *)
(* if any sub-step was committed and none collided, grounded is false.     *)
(***************************************************************************)
C24_VerticalSubSteps ==
  hist.ran =>
    LET b == hist.start
        w == Walker
        steps == Ceil(Abs(b.vy), U)
        stepY == IF steps = 0 THEN 0 ELSE b.vy \div steps
        n == CommittedY(w)
    IN /\ w.trail[1] = <<b.x, b.y>>
       /\ n <= steps
       /\ steps * stepY = b.vy
       /\ \A k \in 1 .. n :
            /\ w.trail[k + 1] = <<b.x, b.y + k * stepY>>
            /\ ~checkCollision(At(b, w.trail[k]), grid, 0, stepY)
       /\ w.y = b.y + n * stepY
       /\ IF n < steps
          THEN /\ checkCollision(At(b, w.trail[n + 1]), grid, 0, stepY)
               /\ w.vy = 0
               /\ b.vy > 0 => w.onGround
               /\ b.vy < 0 => w.onGround = (n = 0 /\ b.onGround)
          ELSE /\ w.vy = b.vy
               /\ w.onGround = (n = 0 /\ b.onGround)

\* two sub-steps up were committed and the third hit the Stone overhead
C24_Witness ==
  /\ hist.ran /\ hist.start.vy < 0
  /\ CommittedY(Walker) = 2
  /\ Ceil(Abs(hist.start.vy), U) > 2
  /\ Walker.vy = 0 /\ ~Walker.onGround
  /\ \E cx \in Floor(Walker.x, U) .. Floor(Walker.x, U) + Walker.width - 1 :
       get(grid, cx, Floor(Walker.trail[3][2], U) - 1).type = Stone

\* a fall of three sub-steps ended on the Stone below and grounded the actor
C24_WitnessDown ==
  /\ hist.ran /\ hist.start.vy > 0
  /\ CommittedY(Walker) = 3 /\ Ceil(Abs(hist.start.vy), U) > 3
  /\ Walker.vy = 0 /\ Walker.onGround

(***************************************************************************)
(* SpecLoop: the game loop around update().  One call of gameLoop is a     *)
(* frame: it calls update() once for every physics step its accumulator    *)
(* holds, with the update of the render the loop's effect last ran in.     *)
(* That update reads gameOver and isPaused as they were in that render     *)
(* (game.seenOver, game.seenPaused); setGameOver and setIsPaused change    *)
(* what React holds (game.gameOver, game.isPaused), and the effect runs    *)
(* again before the next frame.  game.left is the number of update()       *)
(* calls the frame has still to make; hist.call is the last call.          *)
(***************************************************************************)
LoopUpdates == {1, 2}      \* physics steps the accumulator holds in a frame

InitLoop ==
  /\ grid = Level /\ pre = grid /\ nsteps = 0 /\ ticks = 0
  /\ \E h \in {5, 100} :
       player = [createPlayer(0, SpawnY) EXCEPT !.onGround = TRUE, !.health = h]
  /\ slimes = <<WithId(RestingSlime(U, 30), 1), WithId(RestingSlime(9 * U, 30), 2),
                WithId(RestingSlime(5 * U, 30), 3)>>
  /\ bats = <<WithId(HoveringBat(9 * U, U, 100, 20), 4),
              WithId(HoveringBat(9 * U, 15 * U, 60, 20), 5)>>
  /\ spiders = <<WithId(createSpider(0, SpawnY), 6)>>
  /\ game = [NewGame(1000) EXCEPT !.gameTime = 300]
              @@ [left |-> 0, seenOver |-> FALSE, seenPaused |-> FALSE]
  /\ hist = [log |-> <<>>, atStart |-> {}, damage |-> <<>>, hits |-> {},
             nextId |-> 7, resets |-> 0,
             call |-> [over |-> FALSE, paused |-> FALSE, ran |-> FALSE]]

\* gameLoop is called: the accumulator holds n physics steps
LoopFrame ==
  /\ game.pc = "idle" /\ game.left = 0 /\ ticks < MaxLoopTicks
  /\ \E n \in LoopUpdates : \E keys \in TickKeys :
       game' = [game EXCEPT !.left = n, !.keys = keys,
                            !.activePowerUp = Closure(keys),
                            !.seenOver = game.gameOver, !.seenPaused = game.isPaused]
  /\ UNCHANGED <<gridVars, actorVars, ticks, hist>>

\* update() returns at its first line
LoopSkip ==
  /\ game.pc = "idle" /\ game.left > 0
  /\ game.seenOver \/ game.seenPaused
  /\ game' = [game EXCEPT !.left = @ - 1]
  /\ hist' = [hist EXCEPT !.call = [over |-> game.gameOver, paused |-> game.isPaused,
                                    ran |-> FALSE]]
  /\ UNCHANGED <<gridVars, actorVars, ticks>>

\* update() goes on: the player's part of it
LoopBegin ==
  /\ game.pc = "idle" /\ game.left > 0
  /\ ~(game.seenOver \/ game.seenPaused)
  /\ \E d \in TickDeltas :
       /\ player' = updatePlayerPhysics(ApplyIntents(player, game.keys, game.activePowerUp),
                                        grid)
       /\ game' = [At3(Enter(AfterPlayer, slimes, bats, spiders))
                    EXCEPT !.now = @ + d, !.gameTime = @ + 1, !.left = @ - 1]
  /\ hist' = [hist EXCEPT !.log = <<Ev("player", 0, 0)>>, !.atStart = EnemyIds,
                          !.hits = {},
                          !.call = [over |-> game.gameOver, paused |-> game.isPaused,
                                    ran |-> TRUE]]
  /\ ticks' = ticks + 1
  /\ UNCHANGED <<gridVars, slimes, bats, spiders>>

\* the key handler of Escape and p: an event, so between two frames
LoopPause ==
  /\ game.pc = "idle" /\ game.left = 0 /\ ticks < MaxLoopTicks
  /\ game' = [game EXCEPT !.isPaused = ~@]
  /\ UNCHANGED <<gridVars, actorVars, ticks, hist>>

NextLoop ==
  \/ LoopFrame \/ LoopSkip \/ LoopBegin \/ LoopPause
  \/ TickGrid \/ SlimeCallback \/ BatCallback \/ SpiderCallback \/ TickEnd

SpecLoop == InitLoop /\ [][NextLoop]_vars

(***************************************************************************)
(* C25: while the game is paused or over, a call of update() changes       *)
(* nothing in the grid, the player, the rosters or the simulation time:    *)
(* no call of update() made after setIsPaused(true) or setGameOver(true)   *)
(* goes past its first line.                                               *)
(***************************************************************************)
C25_AsStated ==
  hist.call.ran => ~hist.call.over /\ ~hist.call.paused

\* the part about the pause: no call made while paused goes past the first
\* line, and isPaused does not change inside a tick
C25_PauseBetweenTicks ==
  /\ hist.call.ran => ~hist.call.paused
  /\ game.pc # "idle" => ~game.isPaused

\* a call made while paused returned at once
C25_PauseWitness ==
  /\ hist.call.paused /\ ~hist.call.ran /\ game.isPaused /\ ticks > 0

(***************************************************************************)
(* SpecAttack: the player at its spawn position through ticks of update()  *)
(* with the attack key held or not, and resetGame between two ticks (the   *)
(* Restart button of the pause screen).  hist.last and hist.prev are the   *)
(* last two attack starts: the tick, the game (the number of resets        *)
(* before) and the attackCooldown the tick found.                          *)
(***************************************************************************)
AttackKeys == {{}, {" "}}
NoStart == [tick |-> -1, game |-> -1, cooldown |-> -1]

InitAttack ==
  /\ grid = Level /\ pre = grid /\ nsteps = 0 /\ ticks = 0
  /\ player = createPlayer(0, SpawnY)
  /\ slimes = <<>> /\ bats = <<>> /\ spiders = <<>>
  /\ game = [resets |-> 0]
  /\ hist = [last |-> NoStart, prev |-> NoStart]

AttackTick ==
  /\ ticks < MaxAttackTicks
  /\ \E keys \in AttackKeys :
       LET p == ApplyIntents(player, keys, "none")
       IN /\ player' = updatePlayerPhysics(p, grid)
          /\ hist' = IF p.attackFrame = 15
                     THEN [last |-> [tick |-> ticks, game |-> game.resets,
                                     cooldown |-> player.attackCooldown],
                           prev |-> hist.last]
                     ELSE hist
  /\ ticks' = ticks + 1
  /\ UNCHANGED <<gridVars, slimes, bats, spiders, game>>

\* resetGame's player: a new one at the spawn position
AttackReset ==
  /\ game.resets < MaxAttackResets
  /\ player' = createPlayer(0, SpawnY)
  /\ game' = [resets |-> game.resets + 1]
  /\ UNCHANGED <<gridVars, slimes, bats, spiders, ticks, hist>>

NextAttack == AttackTick \/ AttackReset

SpecAttack == InitAttack /\ [][NextAttack]_vars

(***************************************************************************)
(* C26 as stated: an attack starts only on a tick that finds               *)
(* attackCooldown 0; attackFrame > 0 implies attackCooldown =              *)
(* attackFrame + 15; and two attack starts are at least 30 ticks apart.    *)
(***************************************************************************)
C26_AsStated ==
  /\ hist.last # NoStart => hist.last.cooldown = 0
  /\ player.attackFrame > 0 => player.attackCooldown = player.attackFrame + 15
  /\ hist.prev # NoStart => hist.last.tick - hist.prev.tick >= 30

(***************************************************************************)
(* C26: an attack starts only on a tick that finds attackCooldown 0; the   *)
(* start sets attackCooldown 30 and attackFrame 15 and each tick, the      *)
(* start's included, counts both down by 1 to 0, so that after the k-th    *)
(* tick from the start (the start's is the first) they are 30 - k and      *)
(* 15 - k, or 0; attackFrame > 0 implies attackCooldown =                  *)
(* attackFrame + 15; and two attack starts of one game, with no resetGame  *)
(* between them, are at least 30 ticks apart.                              *)
(***************************************************************************)
C26_AttackCooldown ==
  /\ hist.last # NoStart => hist.last.cooldown = 0
  /\ player.attackFrame > 0 => player.attackCooldown = player.attackFrame + 15
  /\ (hist.last # NoStart /\ hist.last.game = game.resets) =>
        LET k == ticks - hist.last.tick
        IN /\ player.attackCooldown = IF k < 30 THEN 30 - k ELSE 0
           /\ player.attackFrame = IF k < 15 THEN 15 - k ELSE 0
  /\ (hist.last = NoStart \/ hist.last.game # game.resets) =>
        player.attackCooldown = 0 /\ player.attackFrame = 0
  /\ (hist.prev # NoStart /\ hist.prev.game = hist.last.game) =>
        hist.last.tick - hist.prev.tick >= 30

\* the key was held all the time: the second attack started 30 ticks after
\* the first
C26_Witness ==
  /\ hist.prev # NoStart /\ hist.prev.game = hist.last.game
  /\ hist.prev.tick = 0 /\ hist.last.tick = 30
  /\ player.attackFrame = 14 /\ player.attackCooldown = 29

(***************************************************************************)
(* updatePhysics() with its draws given: bias[k] is the left of the k-th   *)
(* draw of the call.  A draw is made for every scanned Dirt whose cell     *)
(* below is not Air (the else branch of updateDirt), in scan order.        *)
(***************************************************************************)
\* updateDirt(x, y) is called and takes its else branch
Draws(g, x, y) ==
  /\ ~g.grid[<<x, y>>].updated /\ g.grid[<<x, y>>].type = Dirt
  /\ ~(get(g, x, y + 1) # NoCell /\ get(g, x, y + 1).type = Air)

\* the grid after the visit of (x, y) when the draw, if one is made, is left
VisitWith(g, x, y, left) ==
  IF Draws(g, x, y) THEN updateDirt(g, x, y, left)
  ELSE CHOOSE h \in VisitCell(g, x, y) : TRUE

\* both cells diagonally below (x, y) are Air
BothDiagonalsAir(g, x, y) ==
  /\ get(g, x - 1, y + 1) # NoCell /\ get(g, x - 1, y + 1).type = Air
  /\ get(g, x + 1, y + 1) # NoCell /\ get(g, x + 1, y + 1).type = Air

\* the scan from (x, y) on; r.grid is the grid, r.draws the number of draws
\* made, r.free the draws made for a Dirt with both diagonals Air
RECURSIVE ScanWith(_, _, _, _)
ScanWith(r, bias, x, y) ==
  IF y < 0 THEN r
  ELSE IF x >= r.grid.width THEN ScanWith(r, bias, 0, y - 1)
  ELSE LET g == r.grid
           d == Draws(g, x, y)
           left == IF d THEN bias[r.draws + 1] ELSE -1
       IN ScanWith([grid |-> VisitWith(g, x, y, left),
                    draws |-> IF d THEN r.draws + 1 ELSE r.draws,
                    free |-> IF d /\ BothDiagonalsAir(g, x, y)
                             THEN r.free \cup {r.draws + 1} ELSE r.free],
                   bias, x + 1, y)

updatePhysicsWith(g, bias) ==
  ScanWith([grid |-> resetUpdated(g), draws |-> 0, free |-> {}], bias, 0, g.height - 2)

(***************************************************************************)
(* SpecBias: any small grid of Dirt, Grass and Stone, then two             *)
(* executions of updatePhysics() from it, each with its own draws.  hist   *)
(* holds the two bias sequences and what the second execution left; the    *)
(* grid goes on from the first.                                            *)
(***************************************************************************)
BiasTags == {Dirt, Grass, Stone}
Biases == [1 .. MaxBiasLoose -> {-1, 1}]

InitBias ==
  /\ \E S \in {T \in SUBSET Cells(BiasW, BiasH) : Cardinality(T) <= MaxBiasLoose} :
       \E f \in [S -> BiasTags] : grid = MkGrid(BiasW, BiasH, f)
  /\ pre = grid
  /\ nsteps = 0
  /\ player = createPlayer(0, 0)
  /\ slimes = <<>> /\ bats = <<>> /\ spiders = <<>>
  /\ ticks = 0 /\ game = <<>>
  /\ hist = [first |-> [i \in 1 .. MaxBiasLoose |-> -1],
             second |-> [i \in 1 .. MaxBiasLoose |-> -1],
             draws |-> 0, free |-> {}, other |-> grid]

StepTwice ==
  /\ nsteps < MaxBiasSteps
  /\ \E b1 \in Biases : \E b2 \in Biases :
       LET r1 == updatePhysicsWith(grid, b1)
           r2 == updatePhysicsWith(grid, b2)
       IN /\ grid' = r1.grid
          /\ hist' = [first |-> b1, second |-> b2, draws |-> r1.draws,
                      free |-> r1.free, other |-> r2.grid]
  /\ pre' = grid
  /\ nsteps' = nsteps + 1
  /\ UNCHANGED <<actorVars, ticks, game>>

NextBias == StepTwice

SpecBias == InitBias /\ [][NextBias]_vars

(***************************************************************************)
(* C27: two executions of updatePhysics() from the same grid that draw     *)
(* the same bias sequence leave the same grid, and so do two executions    *)
(* whose sequences differ only in draws made for a Dirt that was not free  *)
(* to choose: the result depends on a draw only if it was made for a Dirt  *)
(* blocked below with both cells diagonally below Air at scan time.        *)
(***************************************************************************)
C27_BiasOnlyWhenFree ==
  nsteps > 0 =>
    /\ grid \in updatePhysics(pre) /\ hist.other \in updatePhysics(pre)
    /\ (\A k \in hist.free : hist.first[k] = hist.second[k]) => hist.other = grid

\* two executions whose first draw differed, made for a Dirt in column 0
\* whose only diagonal is Air, and that left the same grid with that Dirt
\* moved there
C27_Witness ==
  /\ nsteps > 0 /\ hist.draws >= 1 /\ 1 \notin hist.free
  /\ hist.first[1] # hist.second[1]
  /\ hist.other = grid
  /\ \E y \in 0 .. BiasH - 2 :
       /\ pre.grid[<<0, y>>].type = Dirt /\ pre.grid[<<0, y + 1>>].type = Stone
       /\ pre.grid[<<1, y + 1>>].type = Air
       /\ grid.grid[<<1, y + 1>>].id = pre.grid[<<0, y>>].id

\* two executions that differ in a free draw leave different grids
C27_WitnessFree ==
  /\ nsteps > 0 /\ \E k \in hist.free : hist.first[k] # hist.second[k]
  /\ hist.other # grid

(***************************************************************************)
(* SpecSettle: the grid generateLevel leaves, then updatePhysics() calls   *)
(* and nothing else (no actor, no edit of the grid).  hist.level is the    *)
(* generated grid.                                                         *)
(***************************************************************************)
\* the platform loop for the draws platforms[i ..], each <<x, y, width>>
RECURSIVE Platforms(_, _, _)
Platforms(st, platforms, i) ==
  IF i > Len(platforms) THEN st
  ELSE Platforms(PlatformColumns(st, platforms[i][1], platforms[i][1], platforms[i][2],
                                 platforms[i][3]),
                 platforms, i + 1)

\* the pillar loop for the draws pillars[i ..], each <<x, height, width>>
RECURSIVE Pillars(_, _, _)
Pillars(st, pillars, i) ==
  IF i > Len(pillars) THEN st
  ELSE Pillars(PillarRows(st, groundLevel(st.grid) - pillars[i][2], pillars[i][1],
                          pillars[i][3]),
               pillars, i + 1)

\* generateLevel(grid) for the given draws
generateLevel(g, stone, plant, platforms, pillars) ==
  Pillars(Platforms([grid |-> Terrain(g, stone, plant), over |-> {}], platforms, 1),
          pillars, 1).grid

InitSettle ==
  /\ \E plant \in PlantDraws :
     \E y \in PlatformYs : \E w \in PlatformWidths :
       grid = generateLevel(initializeGrid(GRID_WIDTH, GRID_HEIGHT), "none", plant,
                            << <<10, y, w>>, <<40, 30, 5>>, <<90, 44, 12>> >>,
                            << <<15, 19, 2>>, <<100, 8, 2>> >>)
  /\ pre = grid /\ nsteps = 0
  /\ player = createPlayer(0, 0)
  /\ slimes = <<>> /\ bats = <<>> /\ spiders = <<>>
  /\ ticks = 0 /\ game = <<>>
  /\ hist = [level |-> grid]

SettleStep ==
  /\ nsteps < MaxSettleSteps
  /\ grid' \in updatePhysics(grid)
  /\ pre' = grid
  /\ nsteps' = nsteps + 1
  /\ UNCHANGED <<actorVars, ticks, driverVars>>

NextSettle == SettleStep

SpecSettle == InitSettle /\ [][NextSettle]_vars

(***************************************************************************)
(* C28: from the grid generateLevel leaves, with no edit of the grid, no   *)
(* sequence of updatePhysics() calls converts a generated Grass cell to    *)
(* Dirt or moves it: every cell that held Grass in the generated grid      *)
(* holds Grass.                                                            *)
(***************************************************************************)
C28_AsStated ==
  \A c \in DOMAIN grid.grid :
     hist.level.grid[c].type = Grass => grid.grid[c].type = Grass

\* the Grass of the base terrain is kept: the cells of the surface row of
\* each column that hold Grass in the generated grid
C28_TerrainGrassKept ==
  \A x \in 0 .. grid.width - 1 :
     LET c == <<x, TerrainHeight(grid, x)>>
     IN hist.level.grid[c].type = Grass => grid.grid[c].type = Grass

\* every Grass cell of every platform is gone after the second call
C28_PlatformsGone ==
  nsteps >= 2 =>
    \A c \in DOMAIN grid.grid :
       (hist.level.grid[c].type = Grass /\ c[2] < groundLevel(grid) - 3) =>
          grid.grid[c].type # Grass

(***************************************************************************)
(* SpecDirt: any small grid of Dirt and Stone as updatePhysics() can find  *)
(* it when it scans a cell, then the call of updateDirt for a Dirt of a    *)
(* scanned row.  pre is the grid at scan time, hist the call.              *)
(***************************************************************************)
DirtTags == {Dirt, Stone}

InitDirt ==
  /\ \E S \in {T \in SUBSET Cells(DirtW, DirtH) : Cardinality(T) <= MaxDirtCells} :
       \E f \in [S -> DirtTags] : grid = MkGrid(DirtW, DirtH, f)
  /\ pre = grid
  /\ nsteps = 0
  /\ player = createPlayer(0, 0)
  /\ slimes = <<>> /\ bats = <<>> /\ spiders = <<>>
  /\ ticks = 0 /\ game = <<>>
  /\ hist = [x |-> 0, y |-> 0, left |-> -1]

DirtCall ==
  /\ nsteps < MaxDirtCalls
  /\ \E x \in 0 .. grid.width - 1 : \E y \in 0 .. grid.height - 2 : \E left \in {-1, 1} :
       /\ grid.grid[<<x, y>>].type = Dirt /\ ~grid.grid[<<x, y>>].updated
       /\ grid' = updateDirt(grid, x, y, left)
       /\ hist' = [x |-> x, y |-> y, left |-> left]
  /\ pre' = grid
  /\ nsteps' = nsteps + 1
  /\ UNCHANGED <<actorVars, ticks, game>>

NextDirt == DirtCall

SpecDirt == InitDirt /\ [][NextDirt]_vars

\* the cell is in the grid and holds Air
AirAt(g, x, y) == ~OutOfRange(g, x, y) /\ g.grid[<<x, y>>].type = Air

\* the grid is pre with the Dirt of (x, y) at (tx, ty), marked updated, and
\* the Air of (tx, ty) at (x, y)
DirtMovedTo(x, y, tx, ty) ==
  /\ ~OutOfRange(pre, tx, ty)
  /\ grid.grid[<<tx, ty>>] = [pre.grid[<<x, y>>] EXCEPT !.updated = TRUE]
  /\ grid.grid[<<x, y>>].type = Air
  /\ \A c \in DOMAIN pre.grid : c \notin {<<x, y>>, <<tx, ty>>} => grid.grid[c] = pre.grid[c]

(***************************************************************************)
(* C29: a scanned Dirt whose cell below is not Air moves to the            *)
(* diagonal-below cell on the side of the draw if that cell is Air at scan *)
(* time, else to the opposite diagonal-below cell if that one is Air, else *)
(* it stays.  A diagonal outside the grid is not Air: the grid keeps its   *)
(* cells and its Dirt, and a Dirt of column 0 or width - 1 moves, if it    *)
(* moves, to the column next to its own.                                   *)
(***************************************************************************)
C29_DiagonalOrder ==
  (nsteps > 0 /\ ~AirAt(pre, hist.x, hist.y + 1)) =>
    /\ IF AirAt(pre, hist.x + hist.left, hist.y + 1)
       THEN DirtMovedTo(hist.x, hist.y, hist.x + hist.left, hist.y + 1)
       ELSE IF AirAt(pre, hist.x - hist.left, hist.y + 1)
            THEN DirtMovedTo(hist.x, hist.y, hist.x - hist.left, hist.y + 1)
            ELSE grid = pre
    /\ DOMAIN grid.grid = DOMAIN pre.grid
    /\ Count(grid, Dirt) = Count(pre, Dirt)

\* a Dirt of column 0 drew the side outside the grid and went to column 1
C29_Witness ==
  /\ nsteps > 0 /\ hist.x = 0 /\ hist.left = -1
  /\ ~AirAt(pre, 0, hist.y + 1)
  /\ DirtMovedTo(0, hist.y, 1, hist.y + 1)

\* a Dirt of the last column with its only diagonal taken stays
C29_WitnessStays ==
  /\ nsteps > 0 /\ hist.x = DirtW - 1 /\ hist.left = 1
  /\ ~AirAt(pre, hist.x, hist.y + 1) /\ ~AirAt(pre, hist.x - 1, hist.y + 1)
  /\ grid = pre

(***************************************************************************)
(* SpecCoast: one walking actor with a horizontal velocity the code can    *)
(* have given it, on a wide floor with or without a block of Stone, and    *)
(* then ticks with no new intent: no key is held, and the slime's and the  *)
(* spider's cooldowns are those of a launch just made.  hist is as in      *)
(* SpecStep.                                                               *)
(***************************************************************************)
CoastLevels ==
  {MkGrid(CoastW, CoastH,
          [c \in ((0 .. CoastW - 1) \X {CoastH - 1})
                 \cup (IF block THEN {5} \X {CoastH - 3, CoastH - 2} ELSE {}) |-> Stone]) :
     block \in BOOLEAN}

\* the player's walking and sprinting, the same with the speed power-up; the
\* slime's launch; the spider's launch
CoastVxs == {0, 2 * VU, -2 * VU, 3 * VU, 4 * VU, -4 * VU, 6 * VU, -6 * VU}
CoastSlimeVxs == {0, 2 * VU, -2 * VU}
CoastSpiderVxs == {0, (5 * VU) \div 2, -((5 * VU) \div 2)}
CoastXs == {0, 2 * U, (CoastW - 3) * U}

InitCoast ==
  /\ grid \in CoastLevels
  /\ pre = grid /\ nsteps = 0 /\ ticks = 0
  /\ game = <<>>
  /\ bats = <<>>
  /\ \E vx \in CoastVxs \cup CoastSpiderVxs : \E x \in CoastXs : \E y \in {0, (CoastH - 4) * U} :
       \/ /\ vx \in CoastVxs
          /\ player = Moving(createPlayer(x, y), vx, 0)
          /\ slimes = <<>> /\ spiders = <<>>
       \/ /\ vx \in CoastSlimeVxs
          /\ player = createPlayer(0, (CoastH - 4) * U)
          /\ slimes = <<[Moving(createSlime(x, y), vx, 0) EXCEPT !.jumpCooldown = 99]>>
          /\ spiders = <<>>
       \/ /\ vx \in CoastSpiderVxs
          /\ player = createPlayer(0, (CoastH - 4) * U)
          /\ spiders = <<[Moving(createSpider(x, y), vx, 0) EXCEPT !.climbCooldown = 79]>>
          /\ slimes = <<>>
  /\ ~checkCollision(player, grid, 0, 0)
  /\ \A i \in DOMAIN slimes : ~checkCollision(slimes[i], grid, 0, 0)
  /\ \A i \in DOMAIN spiders : ~checkCollision(spiders[i], grid, 0, 0)
  /\ hist = [start |-> player, ran |-> FALSE]

CoastPlayer ==
  /\ slimes = <<>> /\ spiders = <<>> /\ ticks < MaxCoastTicks
  /\ player' = updatePlayerPhysics(ApplyIntents(player, {}, "none"), grid)
  /\ hist' = [start |-> applyGravity(ApplyIntents(player, {}, "none"), U \div 2),
              ran |-> TRUE]
  /\ ticks' = ticks + 1
  /\ UNCHANGED <<gridVars, slimes, bats, spiders, game>>

CoastSlime ==
  /\ slimes # <<>> /\ ticks < MaxCoastTicks
  /\ \E rnd \in {0, 39} :
       /\ slimes' = <<updateSlimeAI(slimes[1], player, grid, rnd)>>
       /\ hist' = [start |-> SlimeStart(slimes[1], player, rnd), ran |-> TRUE]
  /\ ticks' = ticks + 1
  /\ UNCHANGED <<gridVars, player, bats, spiders, game>>

CoastSpider ==
  /\ spiders # <<>> /\ ticks < MaxCoastTicks
  /\ \E rnd \in {0, 29} :
       /\ spiders' = <<updateSpiderAI(spiders[1], player, grid, rnd)>>
       /\ hist' = IF Climbs(spiders[1], player, grid)
                  THEN [start |-> spiders[1], ran |-> FALSE]
                  ELSE [start |-> SpiderStart([spiders[1] EXCEPT !.climbCooldown =
                                                  IF @ > 0 THEN @ - 1 ELSE @],
                                              player, rnd),
                        ran |-> TRUE]
  /\ ticks' = ticks + 1
  /\ UNCHANGED <<gridVars, player, slimes, bats, game>>

NextCoast == CoastPlayer \/ CoastSlime \/ CoastSpider

SpecCoast == InitCoast /\ [][NextCoast]_vars

\* what the friction line leaves of vx: 0.8 of it for the player, 0.9 for a
\* slime and a spider, and 0 if that is below 0.1
Decayed(vx) ==
  LET v == IF slimes = <<>> /\ spiders = <<>> THEN MulFrac(vx, 8, 10)
           ELSE MulFrac(vx, 9, 10)
  IN IF Abs(v) * 10 < VU THEN 0 ELSE v

(***************************************************************************)
(* C30: in one horizontal integration of the player, a slime or a spider   *)
(* that does not climb, x changes by a whole number k of cells in the      *)
(* direction of vx, 0 <= k <= ceil(|vx|), each of the k unit steps tested  *)
(* free before it; k < ceil(|vx|) only if the next unit step collided, and *)
(* then vx is 0; otherwise vx is its value times the friction factor, and  *)
(* exactly 0 if that is below 0.1.  With no new intent vx is exactly 0     *)
(* after 31 ticks at the latest, and x is a whole number of cells for an   *)
(* actor placed at one.                                                    *)
(***************************************************************************)
C30_HorizontalSteps ==
  /\ Walker.x % U = 0
  /\ ticks >= 31 => Walker.vx = 0
  /\ hist.ran =>
       LET b == hist.start
           w == Walker
           n == Ceil(Abs(b.vx), VU)
           dir == IF b.vx > 0 THEN 1 ELSE -1
           k == ((w.x - b.x) * dir) \div U
       IN /\ w.x = b.x + dir * k * U
          /\ k >= 0 /\ k <= n
          /\ \A j \in 1 .. k :
               ~checkCollision(At(w, <<b.x + dir * (j - 1) * U, w.y>>), grid, dir * U, 0)
          /\ IF k < n
             THEN checkCollision(w, grid, dir * U, 0) /\ w.vx = 0
             ELSE w.vx = Decayed(b.vx)

\* the player ran into the block: fewer unit steps than ceil(|vx|), vx 0
C30_Witness ==
  /\ hist.ran /\ slimes = <<>> /\ spiders = <<>>
  /\ hist.start.vx > 3 * VU
  /\ Walker.x > hist.start.x /\ Walker.x < hist.start.x + 4 * U
  /\ Walker.vx = 0
  /\ get(grid, Floor(Walker.x, U) + 3, CoastH - 2).type = Stone

\* a spider's vx went below 0.1 and was set to 0 on the 31st tick
C30_WitnessDecay ==
  /\ ticks = 31 /\ spiders # <<>> /\ hist.ran
  /\ hist.start.vx > 0 /\ Walker.vx = 0
  /\ Walker.x = hist.start.x + U

(***************************************************************************)
(* More claims about generateLevel.                                        *)
(***************************************************************************)
\* the state the terrain pass leaves, before the first platform
AfterTerrain == game.pc = "platforms" /\ game.i = 0

(***************************************************************************)
(* C31: once the terrain pass has run, and through the platform and the    *)
(* pillar passes, every cell from a column's height-field row down to the  *)
(* bottom row is not Air; the terrain pass leaves Grass at the             *)
(* height-field row of every column and nowhere else, and every Stone it   *)
(* leaves is more than 8 rows below that row.                              *)
(***************************************************************************)
C31_SolidBelowCap ==
  game.pc # "terrain" =>
    \A x \in 0 .. grid.width - 1 :
      LET height == TerrainHeight(grid, x)
      IN /\ \A y \in height .. grid.height - 1 : get(grid, x, y).type # Air
         /\ AfterTerrain =>
              \A y \in 0 .. grid.height - 1 :
                /\ (get(grid, x, y).type = Grass) <=> (y = height)
                /\ get(grid, x, y).type = Stone => y > height + 8

\* the whole level made: Stone of the terrain pass 9 rows below the cap of
\* column 1, Dirt 8 rows below it, and a pillar that replaced the cap of
\* column 40
C31_Witness ==
  /\ game.pc = "done"
  /\ get(grid, 1, TerrainHeight(grid, 1) + 9).type = Stone
  /\ get(grid, 1, TerrainHeight(grid, 1) + 8).type = Dirt
  /\ get(grid, 40, TerrainHeight(grid, 40)).type = Stone
  /\ \A x \in 0 .. grid.width - 1 : get(grid, x, grid.height - 1).type # Air

(***************************************************************************)
(* SpecRest: any small grid, then updatePhysics() calls with nothing else  *)
(* writing to the grid, as many as the grid can need to come to rest.      *)
(* hist.room is the number of rows the loose cells of the first grid have  *)
(* under them in all.                                                      *)
(***************************************************************************)
LooseCells(g) == {c \in DOMAIN g.grid : g.grid[c].type \in {Dirt, Grass}}

\* the sum of the row indices of the loose cells, from row y on
RECURSIVE RowSumFrom(_, _)
RowSumFrom(g, y) ==
  IF y >= g.height THEN 0
  ELSE y * Cardinality({c \in LooseCells(g) : c[2] = y}) + RowSumFrom(g, y + 1)

RowSum(g) == RowSumFrom(g, 0)
Room(g) == (g.height - 1) * Cardinality(LooseCells(g)) - RowSum(g)
Tags(g) == [c \in DOMAIN g.grid |-> g.grid[c].type]

InitRest ==
  /\ \E S \in {T \in SUBSET Cells(RestW, RestH) : Cardinality(T) <= MaxRestLoose} :
       \E f \in [S -> InitTags] : grid = MkGrid(RestW, RestH, f)
  /\ pre = grid
  /\ nsteps = 0
  /\ player = createPlayer(0, 0)
  /\ slimes = <<>> /\ bats = <<>> /\ spiders = <<>>
  /\ ticks = 0 /\ game = <<>>
  /\ hist = [room |-> Room(grid)]

RestStep ==
  /\ nsteps < MaxRestSteps
  /\ grid' \in updatePhysics(grid)
  /\ pre' = grid
  /\ nsteps' = nsteps + 1
  /\ UNCHANGED <<actorVars, ticks, driverVars>>

NextRest == RestStep

SpecRest == InitRest /\ [][NextRest]_vars

(***************************************************************************)
(* C32: in a call of updatePhysics() every Dirt and Grass stays where it   *)
(* is or goes to the row below (never up, never aside within its row), so  *)
(* a call that moves anything raises the sum of the row indices of the     *)
(* loose cells; whatever the draws, no call after as many calls as the     *)
(* loose cells had rows under them moves anything, and one call later the  *)
(* grid is one that updatePhysics() leaves as it is.                       *)
(***************************************************************************)
C32_Settles ==
  nsteps > 0 =>
    /\ \A c \in LooseCells(pre) :
         LET to == PosOfId(grid, pre.grid[c].id)
         IN to = c \/ to[2] = c[2] + 1
    /\ Tags(grid) # Tags(pre) => RowSum(grid) > RowSum(pre)
    /\ nsteps > hist.room => Tags(grid) = Tags(pre)
    /\ nsteps > hist.room + 1 => updatePhysics(grid) = {grid}

\* three loose cells with five rows under them in all: after seven calls
\* all three lie in the bottom row and the grid is at rest
C32_Witness ==
  /\ nsteps = hist.room + 2
  /\ hist.room = 5
  /\ RowSum(grid) = (RestH - 1) * Cardinality(LooseCells(grid))
  /\ Cardinality(LooseCells(grid)) = 3
  /\ updatePhysics(grid) = {grid}

\* a Dirt slid off a Stone diagonally
C32_WitnessSlide ==
  /\ nsteps > 0
  /\ \E c \in LooseCells(pre) : PosOfId(grid, pre.grid[c].id) = <<c[1] + 1, c[2] + 1>>

(***************************************************************************)
(* More claims about findSpawnPosition.                                    *)
(***************************************************************************)
\* C33, as stated: the slime (or the spider, 2 x 2 as well) created at the
\* position of a successful probe of width 2 overlaps no solid cell:
\* checkCollision(entity, grid, 0, 0) is false right after creation.
C33_AsStated ==
  (game.pc = "done" /\ game.found /\ game.width = 2) =>
     ~checkCollision(createSlime(game.pos[1] * U, game.pos[2] * U), grid, 0, 0)

\* what the probe does establish: the top row of the box is open, and the
\* box's second row holds the floor the probe asked for
C33_TopRowOnly ==
  (game.pc = "done" /\ game.found /\ game.width = 2) =>
     LET e == createSlime(game.pos[1] * U, game.pos[2] * U)
     IN /\ \A dx \in 0 .. e.width - 1 :
             get(grid, game.pos[1] + dx, game.pos[2]).type \in {Air, Plant}
        /\ \E dx \in 0 .. e.width - 1 :
             get(grid, game.pos[1] + dx, game.pos[2] + 1).type \notin {Air, Plant}
        /\ checkCollision(e, grid, 0, 0)

(***************************************************************************)
(* More claims about the spider.                                           *)
(***************************************************************************)
\* C34, as stated: a spider whose box overlaps no solid cell when
\* updateSpiderAI is called overlaps none when it returns, climbing or not.
C34_AsStated ==
  (ticks > 0 /\ ~checkCollision(hist.before, grid, 0, 0)) =>
     ~checkCollision(spiders[1], grid, 0, 0)

\* the half that holds: a tick on which the spider does not climb
C34_GroundedStaysFree ==
  (ticks > 0 /\ ~checkCollision(hist.before, grid, 0, 0)
             /\ ~Climbs(hist.before, player, grid)) =>
     ~checkCollision(spiders[1], grid, 0, 0)

\* a climbing spider moved down into the ledge under it
C34_IntoLedge ==
  /\ ticks > 0
  /\ ~checkCollision(hist.before, grid, 0, 0)
  /\ Climbs(hist.before, player, grid)
  /\ spiders[1].y = hist.before.y + U
  /\ checkCollision(spiders[1], grid, 0, 0)

(***************************************************************************)
(* SpecRoster: the tick driver of SpecTick on rosters of the sizes the     *)
(* game starts with, of the sizes of the caps, and of one less, late       *)
(* enough in the game for the difficulty spawn to be due.  The first       *)
(* enemy of each roster is worn down and in the reach of the sword, or     *)
(* away from it; the others are away.                                      *)
(***************************************************************************)
RosterSizes == {<<3, 2, 1>>, <<5, 3, 2>>, <<6, 4, 3>>}

\* the roster of n enemies: first, then n - 1 times other, with the
\* identities from + 1 .. from + n
Filled(first, other, n, from) ==
  [i \in 1 .. n |-> WithId(IF i = 1 THEN first ELSE other, from + i)]

InitRoster ==
  /\ grid = Level /\ pre = grid /\ nsteps = 0 /\ ticks = 0
  /\ player \in InitPlayers
  /\ \E n \in RosterSizes :
       /\ \E a \in InitSlimes : slimes = Filled(a, RestingSlime(U, 30), n[1], 0)
       /\ \E a \in InitBats :
            bats = Filled(a, HoveringBat(9 * U, 15 * U, 60, 20), n[2], n[1])
       /\ \E a \in InitSpiders :
            spiders = Filled(a, [createSpider(U, SpiderRestY) EXCEPT !.onGround = TRUE,
                                                                     !.climbCooldown = 40],
                             n[3], n[1] + n[2])
       /\ hist = [log |-> <<>>, atStart |-> {}, damage |-> <<>>, hits |-> {},
                  nextId |-> n[1] + n[2] + n[3] + 1, resets |-> 0]
  /\ game = [NewGame(1000) EXCEPT !.gameTime = 700]

SpecRoster == InitRoster /\ [][NextTick]_vars

(***************************************************************************)
(* C35: between two ticks the rosters hold 3 to 6 slimes, 2 to 4 bats and  *)
(* 1 to 3 spiders; while a roster's forEach runs the roster has the length *)
(* it had when the forEach began (a callback that removes a dead enemy     *)
(* pushes one replacement of the same archetype), no roster is ever        *)
(* shorter than the game starts it, and the difficulty spawn adds at most  *)
(* one enemy, to a roster that was below its cap.                          *)
(***************************************************************************)
C35_RosterBounds ==
  /\ Len(slimes) >= 3 /\ Len(bats) >= 2 /\ Len(spiders) >= 1
  /\ Len(slimes) <= 6 /\ Len(bats) <= 4 /\ Len(spiders) <= 3
  /\ game.pc = "slimes" => Len(slimes) = game.length
  /\ game.pc = "bats" => Len(bats) = game.length
  /\ game.pc = "spiders" => Len(spiders) = game.length
  /\ (game.pc = "idle" /\ ticks > 0 /\ hist.log # <<>>) =>
        Len(slimes) + Len(bats) + Len(spiders) <=
          Cardinality(hist.atStart) + (IF game.lastSpawnTime = game.gameTime THEN 1 ELSE 0)

\* the end of a tick with all three rosters at their caps, in which the
\* difficulty spawn was due and a slime died and was replaced
C35_Witness ==
  /\ game.pc = "idle" /\ ticks = 1
  /\ game.lastSpawnTime = game.gameTime
  /\ Len(slimes) = 6 /\ Len(bats) = 4 /\ Len(spiders) = 3
  /\ Cardinality(hist.atStart) = 13
  /\ \E i \in DOMAIN slimes : slimes[i].id \notin hist.atStart

\* the difficulty spawn added a spider to a roster of 2
C35_WitnessSpawn ==
  /\ game.pc = "idle" /\ ticks = 1
  /\ game.lastSpawnTime = game.gameTime
  /\ Len(spiders) = 3 /\ Cardinality(hist.atStart) = 10
  /\ Len(slimes) = 5 /\ Len(bats) = 3

(***************************************************************************)
(* SpecDive: one bat over a floor of Stone in a grid high enough for it to *)
(* hover in, and a player that stands on the floor, for more than one      *)
(* dive-cooldown.  hist.before is the bat the last updateBatAI was given,  *)
(* started tells whether that call started a dive, last is the tick of the *)
(* last dive start (for a bat that begins with a cooldown c, the tick      *)
(* c - 120 in which it was set, or was set at the latest), gap the ticks   *)
(* between the last two.                                                   *)
(***************************************************************************)
DiveLevel == MkGrid(DiveW, DiveH, [c \in (0 .. DiveW - 1) \X {DiveH - 1} |-> Stone])

\* the test of "Decide whether to dive", on the bat the call is given
StartsDive(bat, p) ==
  /\ ~bat.isDiving
  /\ (IF bat.diveCooldown > 0 THEN bat.diveCooldown - 1 ELSE 0) = 0
  /\ Within(p.x - bat.x, p.y - bat.y, 40)

InitDive ==
  /\ grid = DiveLevel /\ pre = grid /\ nsteps = 0 /\ ticks = 0
  /\ \E x \in {0, 35 * U, 45 * U} : player = createPlayer(x, (DiveH - 4) * U)
  /\ \E x \in {0, (DiveW - 2) * U} : \E y \in {0, 20 * U, (DiveH - 4) * U} :
     \E c \in {0, 1, 2, 120} : \E diving \in BOOLEAN :
       /\ bats = <<[createBat(x, y) EXCEPT !.diveCooldown = c, !.isDiving = diving]>>
       /\ hist = [before |-> bats[1], started |-> FALSE,
                  last |-> c - 120, gap |-> 0]
  /\ slimes = <<>> /\ spiders = <<>>
  /\ game = <<>>

DiveTick ==
  /\ ticks < MaxDiveTicks
  /\ bats' = <<updateBatAI(bats[1], player, grid)>>
  /\ hist' = IF StartsDive(bats[1], player)
             THEN [before |-> bats[1], started |-> TRUE, last |-> ticks + 1,
                   gap |-> ticks + 1 - hist.last]
             ELSE [hist EXCEPT !.before = bats[1], !.started = FALSE]
  /\ ticks' = ticks + 1
  /\ UNCHANGED <<gridVars, player, slimes, spiders, game>>

NextDive == DiveTick

SpecDive == InitDive /\ [][NextDive]_vars

Hopper == IF slimes # <<>> THEN slimes[1] ELSE spiders[1]
CoolOf(e) == IF slimes # <<>> THEN e.jumpCooldown ELSE e.climbCooldown

\* the launch test of updateSpiderAI, on the spider the call is given
SpiderLaunches(s, p, g) ==
  /\ ~Climbs(s, p, g)
  /\ s.onGround /\ s.climbCooldown <= 1 /\ Abs(p.x - s.x) < 35 * U

InitHop ==
  /\ grid = SlimeLevel /\ pre = grid /\ nsteps = 0 /\ ticks = 0
  /\ \E x \in {0, 12 * U} : \E y \in {0, (SlimeH - 4) * U} : player = createPlayer(x, y)
  /\ \E x \in {0, U} : \E c \in {0, 1, 2} :
       \/ /\ slimes = <<[createSlime(x, 0) EXCEPT !.jumpCooldown = c]>>
          /\ spiders = <<>>
          /\ hist = [before |-> slimes[1], started |-> FALSE, last |-> c - 60, gap |-> 0]
       \/ /\ spiders = <<[createSpider(x, 0) EXCEPT !.climbCooldown = c]>>
          /\ slimes = <<>>
          /\ hist = [before |-> spiders[1], started |-> FALSE, last |-> c - 50, gap |-> 0]
  /\ bats = <<>>
  /\ game = <<>>

HopSlime ==
  /\ slimes # <<>> /\ ticks < MaxHopTicks
  /\ \E rnd \in SlimeDraws : slimes' = <<updateSlimeAI(slimes[1], player, grid, rnd)>>
  /\ hist' = IF Launches(slimes[1], player)
             THEN [before |-> slimes[1], started |-> TRUE, last |-> ticks + 1,
                   gap |-> ticks + 1 - hist.last]
             ELSE [hist EXCEPT !.before = slimes[1], !.started = FALSE]
  /\ ticks' = ticks + 1
  /\ UNCHANGED <<gridVars, player, bats, spiders, game>>

HopSpider ==
  /\ spiders # <<>> /\ ticks < MaxHopTicks
  /\ \E rnd \in SpiderDraws : spiders' = <<updateSpiderAI(spiders[1], player, grid, rnd)>>
  /\ hist' = IF SpiderLaunches(spiders[1], player, grid)
             THEN [before |-> spiders[1], started |-> TRUE, last |-> ticks + 1,
                   gap |-> ticks + 1 - hist.last]
             ELSE [hist EXCEPT !.before = spiders[1], !.started = FALSE]
  /\ ticks' = ticks + 1
  /\ UNCHANGED <<gridVars, player, slimes, bats, game>>

NextHop == HopSlime \/ HopSpider

SpecHop == InitHop /\ [][NextHop]_vars

\* C37, as stated: the hop cooldown is never negative and is one less after
\* every AI call it was positive before; two launches of a slime are at
\* least 60 ticks apart, of a spider at least 50.
C37_AsStated ==
  ticks > 0 =>
    /\ CoolOf(Hopper) >= 0
    /\ CoolOf(hist.before) > 0 => CoolOf(Hopper) = CoolOf(hist.before) - 1
    /\ hist.started => hist.gap >= (IF slimes # <<>> THEN 60 ELSE 50)

(***************************************************************************)
(* C37: the hop cooldown of a slime and of a spider is never negative; a   *)
(* call that launches nothing leaves it one less if it was positive (for   *)
(* the spider also when the call makes it climb) and 0 if it was 0; a call *)
(* launches only when the cooldown is 0 after the call's decrement (0 or 1 *)
(* when the call begins) and sets it to 60 .. 99 for a slime and 50 .. 79  *)
(* for a spider; two launches of a slime are at least 60 ticks apart, two  *)
(* of a spider at least 50.                                                *)
(***************************************************************************)
C37_HopCooldown ==
  ticks > 0 =>
    LET least == IF slimes # <<>> THEN 60 ELSE 50
        most == IF slimes # <<>> THEN 99 ELSE 79
    IN /\ CoolOf(Hopper) >= 0
       /\ ~hist.started =>
             CoolOf(Hopper) =
               IF CoolOf(hist.before) > 0 THEN CoolOf(hist.before) - 1 ELSE 0
       /\ hist.started =>
             /\ CoolOf(hist.before) \in {0, 1}
             /\ CoolOf(Hopper) \in least .. most
             /\ hist.gap >= least

\* a slime launched 60 ticks after its launch before, its cooldown 1 when
\* the call began
C37_Witness ==
  /\ slimes # <<>> /\ hist.started /\ hist.gap = 60 /\ hist.last > 60
  /\ hist.before.jumpCooldown = 1

\* the same for a spider, after 50 ticks
C37_WitnessSpider ==
  /\ spiders # <<>> /\ hist.started /\ hist.gap = 50 /\ hist.last > 50
  /\ hist.before.climbCooldown = 1

\* a climbing spider's cooldown went down by one
C37_WitnessClimb ==
  /\ spiders # <<>> /\ ticks > 0 /\ spiders[1].isClimbing
  /\ hist.before.climbCooldown = 2 /\ spiders[1].climbCooldown = 1

(***************************************************************************)
(* SpecJump: the player created over a floor of Stone, with or without a   *)
(* ledge of Stone two rows above it, and ticks of intents and              *)
(* updatePlayerPhysics on a grid that does not change.  hist.before is the *)
(* player the tick began with, start the player the integration began     *)
(* with, jumped tells whether the tick applied the jump impulse, landed    *)
(* whether the player has been grounded by a tick since the last impulse,  *)
(* and landedBefore is landed as the tick found it.                        *)
(***************************************************************************)
JumpLevels ==
  {MkGrid(JumpW, JumpH,
          [c \in ((0 .. JumpW - 1) \X {JumpH - 1})
                 \cup (IF ledge THEN (0 .. 3) \X {JumpH - 3} ELSE {}) |-> Stone]) :
     ledge \in BOOLEAN}

JumpKeys == {{}, {"d"}, {"w"}, {"d", "w"}}

InitJump ==
  /\ grid \in JumpLevels /\ pre = grid /\ nsteps = 0 /\ ticks = 0
  /\ \E x \in {0, U} : player = createPlayer(x, (JumpH - 6) * U)
  /\ slimes = <<>> /\ bats = <<>> /\ spiders = <<>>
  /\ game = <<>>
  /\ hist = [before |-> player, start |-> player, jumped |-> FALSE,
             landed |-> FALSE, landedBefore |-> FALSE]

JumpTick ==
  /\ ticks < MaxJumpTicks
  /\ \E keys \in JumpKeys :
       LET jumped == "w" \in keys /\ player.onGround
           after == updatePlayerPhysics(ApplyIntents(player, keys, "none"), grid)
       IN /\ player' = after
          /\ hist' = [before |-> player,
                      start |-> applyGravity(ApplyIntents(player, keys, "none"), U \div 2),
                      jumped |-> jumped,
                      landed |-> IF jumped THEN after.onGround
                                 ELSE hist.landed \/ after.onGround,
                      landedBefore |-> hist.landed]
  /\ ticks' = ticks + 1
  /\ UNCHANGED <<gridVars, slimes, bats, spiders, game>>

NextJump == JumpTick

SpecJump == InitJump /\ [][NextJump]_vars

\* a cell that is not passable, or the grid's edge, in the row under the
\* box, in one of the box's columns
Beneath(p, g) ==
  \E dx \in 0 .. p.width - 1 :
    LET cx == Floor(p.x, U) + dx
        cy == Floor(p.y, U) + p.height
    IN OutOfRange(g, cx, cy) \/ get(g, cx, cy).type \notin Passable

\* the tick's vertical loop ended with a downward sub-step that collided
LandedNow ==
  /\ hist.start.vy > 0 /\ player.vy = 0
  /\ checkCollision(At(player, <<hist.start.x, player.y>>), grid, 0,
                    hist.start.vy \div Ceil(hist.start.vy, U))

\* the three parts of C38 about the impulse and the flag
C38_JumpsAfterLanding ==
  ticks > 0 =>
    /\ hist.jumped => (hist.before.onGround /\ hist.start.vy = -7 * U + U \div 2
                          /\ ~hist.start.onGround /\ ~player.onGround)
    /\ hist.start.vy = -7 * U + U \div 2 => hist.jumped
    /\ player.onGround => LandedNow
    /\ hist.jumped => hist.landedBefore

\* C38, as stated: the jump impulse is applied only on a tick that starts
\* grounded and clears the flag; the flag becomes true only by a downward
\* sub-step that collides; between two impulses the player landed; and a
\* player that is grounded between two ticks has a solid cell or the grid's
\* edge directly beneath its box.
C38_AsStated ==
  /\ C38_JumpsAfterLanding
  /\ player.onGround => Beneath(player, grid)

\* the player walked off the ledge grounded, and jumped from the air on the
\* next tick
C38_MidAirJump ==
  /\ hist.jumped /\ hist.before.onGround
  /\ ~Beneath(hist.before, grid)

====
